---- MODULE Spec2Model ----
(***************************************************************************)
(* Collin County foreclosure pipeline: the PDF parser                      *)
(* (parse_foreclosure_pdfs.py), the listing scraper                        *)
(* (backup/scrape_collin_foreclosures_proxy copy 6.py), the sheet uploader *)
(* (upload_to_google_sheets.py) and their checkpoint ledgers, as state     *)
(* machines.                                                               *)
(*                                                                         *)
(* Several specifications share the module; each leaves the variables of   *)
(* the other parts at their initial values.                                *)
(*   SpecPdf      - ForeClosurePDFProcessor over a directory of PDFs       *)
(*   SpecScrape   - scrape_all over a list page                            *)
(*   SpecKey      - create_checkpoint_key applied to pairs of snapshots    *)
(*   SpecExtract  - extract_pdf_text on one document                       *)
(*   SpecJson     - _extract_json_from_response on one response            *)
(*   SpecFallback - _fallback_extraction on one text                       *)
(*   SpecApi      - _make_api_request, attempt by attempt                  *)
(*   SpecUpload   - ForeClosureGoogleSheetsProcessor over a list of records*)
(***************************************************************************)
EXTENDS Integers, Sequences, FiniteSets, TLC

VARIABLES
    \* ---- parse_foreclosure_pdfs.py ----
    pdf_text,            \* file name -> text extract_pdf_text returns for it
    checkpoint_file,     \* pdf_parsing_checkpoints.json on disk
    parsed_data_file,    \* parsed_foreclosure_data.json on disk
    processed_pdfs,      \* ForeClosureJSONUpdater.processed_pdfs (memory)
    proc,                \* "down" | "idle" | "running"
    unprocessed_pdfs,    \* rest of the list process_all_pdfs iterates over
    runs,                \* process_all_pdfs invocations so far
    api_called,          \* files generate_content was called for in this run
    run_start_processed, \* processed_pdfs when the current run began
    done_earlier,        \* files stored and marked processed by earlier runs
    done_this_run,       \* files stored and marked processed by this run
    last_parse,          \* what the last parse_pdf call did
    last_op,             \* how save_checkpoints ended in the last step, if called
    last_doc,            \* what save_parsed_pdf_data did in the last step
    attempted,           \* files process_single_pdf was called for in the run going on
    \* ---- backup/scrape_collin_foreclosures_proxy copy 6.py ----
    rows_read,           \* rows read with snapshot_row so far, over all runs
    processed_checkpoints, \* the set scrape_all holds in memory
    all_rows,            \* the list scrape_all holds in memory
    scrape_checkpoint_file, \* processed_checkpoints.json on disk
    results_file,        \* collin_foreclosures.json on disk (list of rows)
    scr,                 \* "down" | "scraping"
    processed_listings,  \* listings (by identity) scraped and appended so far
    skipped_listings,    \* listings (by identity) skipped as already processed
    last_scrape,         \* how the last step of the scraper ended
    last_check,          \* the listing and the answer of the last is_already_processed
    \* ---- create_checkpoint_key on a pair of snapshots ----
    snap_a, snap_b,      \* two list snapshots
    keyed,               \* whether the keys below were computed
    key_a, key_b,        \* create_checkpoint_key of each
    key_reloaded,        \* key_a after save_checkpoint + load_processed_checkpoints
    \* ---- PDFTextExtractor.extract_pdf_text on one document ----
    ex_doc,              \* what each library yields for the document
    ex_pc,               \* "idle" | strategy about to be tried | "returned" | "raised"
    ex_text,             \* the local variable text
    ex_tried,            \* strategies tried so far, in order
    ex_result,           \* the returned string, once ex_pc = "returned"
    \* ---- _extract_json_from_response on one response ----
    response,            \* the text of the generative response, as tokens
    response_kind,       \* which object it renders, in which style and wrapping
    json_done,           \* whether _extract_json_from_response has returned
    json_result,         \* what it returned
    parsed_record,       \* the record parse_pdf and create_parsed_record make of it
    \* ---- _fallback_extraction on one text ----
    fb_lines,            \* the lines of pdf_text, each a sequence of tokens
    fb_done,             \* whether _fallback_extraction has returned
    fb_result,           \* what it returned
    \* ---- _make_api_request on one text ----
    text_len,            \* len(pdf_text) of the text passed in
    sent_len,            \* len of the text put into the prompt
    api_pc,              \* "idle" | "loop" | "returned"
    attempt,             \* the loop variable of for attempt in range(max_retries)
    api_requests,        \* self.api_requests
    successful_requests, \* self.successful_requests
    failed_requests,     \* self.failed_requests
    api_calls,           \* generate_content calls made by this invocation
    api_log,             \* the calls of the service and the time.sleep waits, in order, from the last call of the document before on
    api_last,            \* how the last attempt ended
    api_return,          \* "object" | "None" once returned
    \* ---- upload_to_google_sheets.py ----
    combined_records,    \* detail_ids of the records combine_records returns
    col_a_values,        \* len(worksheet.col_values(1))
    sheet,               \* the rows written with worksheet.update
    upload_checkpoint_file, \* sheets_upload_checkpoints.json on disk
    processed_records,   \* GoogleSheetsUploader.processed_records (memory)
    up,                  \* "down" | "idle" | "uploading"
    new_records,         \* the list upload_batch iterates over
    batch_i,             \* records of that list upload_batch has gone through
    start_row,           \* start_row of upload_batch
    upload_runs,         \* process_all_records calls so far
    last_upload,         \* what the last upload_record call did
    last_save,           \* how the last save_checkpoints of the uploader ended
    failed_writes,       \* detail_ids whose write failed in the last batch
    written_ids,         \* detail_ids written to the sheet so far, by any run
    failed_before        \* failed_writes of the batch before the last one

pdfVars == <<pdf_text, checkpoint_file, parsed_data_file, processed_pdfs, proc,
             unprocessed_pdfs, runs, api_called, run_start_processed,
             done_earlier, done_this_run, last_parse, last_op, last_doc,
             attempted>>

scrapeVars == <<rows_read, processed_checkpoints, all_rows,
                scrape_checkpoint_file, results_file, scr,
                processed_listings, skipped_listings, last_scrape,
                last_check>>

keyVars == <<snap_a, snap_b, keyed, key_a, key_b, key_reloaded>>

extractVars == <<ex_doc, ex_pc, ex_text, ex_tried, ex_result>>

jsonVars == <<response, response_kind, json_done, json_result,
              parsed_record>>

fallbackVars == <<fb_lines, fb_done, fb_result>>

apiVars == <<text_len, sent_len, api_pc, attempt, api_requests,
             successful_requests, failed_requests, api_calls, api_log,
             api_last, api_return>>

uploadVars == <<combined_records, col_a_values, sheet,
                upload_checkpoint_file, processed_records, up, new_records,
                batch_i, start_row, upload_runs, last_upload, last_save,
                failed_writes, written_ids, failed_before>>

vars == <<pdfVars, scrapeVars, keyVars, extractVars, jsonVars, fallbackVars, apiVars, uploadVars>>

----------------------------------------------------------------------------
(* Bounds *)

MaxRuns == 2

\* longest address string of the snapshots given to create_checkpoint_key
MaxLen == 3

\* rows the scraper reads from the list page, over all its runs
MaxRows == 2

----------------------------------------------------------------------------
(* parse_foreclosure_pdfs.py : inputs *)

\* File names are token sequences so that str.replace('.pdf', '') can be
\* computed: "a.pdf", "a.pdf.pdf", "b.pdf", in the order sorted() gives.
PdfOrder == << <<"a", ".pdf">>, <<"a", ".pdf", ".pdf">>, <<"b", ".pdf">> >>

PdfFiles == {PdfOrder[i] : i \in 1..Len(PdfOrder)}

\* The text of a document, described by what the patterns of
\* _fallback_extraction find in it: the stripped length of the first address
\* match, of the first BORROWER/GRANTOR/DEBTOR match, and the amounts matched.
PdfTexts ==
    { [blank |-> TRUE,  address_len |-> 0,  names_len |-> 0, amounts |-> << >>],
      [blank |-> FALSE, address_len |-> 10, names_len |-> 3, amounts |-> <<1000>>],
      [blank |-> FALSE, address_len |-> 11, names_len |-> 4, amounts |-> <<999, 1001>>] }

max_retries == 3

----------------------------------------------------------------------------
(* parse_foreclosure_pdfs.py : pure parts *)

\* _make_api_request: the loop makes attempt 1, 2, 3 and returns at the first
\* one whose response parses to an object; first_json is that attempt, 0 when
\* no attempt of the three succeeds (exception, blocked, empty, unparseable).
make_api_request(first_json) ==
    [ok |-> first_json # 0,
     calls |-> IF first_json # 0 THEN first_json ELSE max_retries]

\* _fallback_extraction: the record is returned only if one of
\* property_address, defendant, total_debt was found.
fallback_extraction(text) ==
    LET address  == text.address_len > 10
        names    == text.names_len > 3
        amounts  == SelectSeq(text.amounts, LAMBDA a : a > 1000)
    IN  [ok |-> address \/ names \/ Len(amounts) > 0,
         property_address |-> address,
         defendant |-> names,
         total_debt |-> IF Len(amounts) > 0 THEN amounts[1] ELSE 0]

\* parse_pdf: None for blank text; the AI record; else the fallback record;
\* else None.
parse_pdf(f, text, first_json) ==
    IF text.blank
    THEN [ok |-> FALSE, calls |-> 0, source_pdf_file |-> f, method |-> "none"]
    ELSE LET ai == make_api_request(first_json)
             fb == fallback_extraction(text)
         IN  IF ai.ok
             THEN [ok |-> TRUE, calls |-> ai.calls, source_pdf_file |-> f,
                   method |-> "AI"]
             ELSE IF fb.ok
             THEN [ok |-> TRUE, calls |-> ai.calls, source_pdf_file |-> f,
                   method |-> "fallback"]
             ELSE [ok |-> FALSE, calls |-> ai.calls, source_pdf_file |-> f,
                   method |-> "none"]

\* pdf_filename.replace('.pdf', '')
DetailId(f) == SelectSeq(f, LAMBDA t : t # ".pdf")

create_parsed_record(data) ==
    [detail_id |-> DetailId(data.source_pdf_file),
     source_pdf_file |-> data.source_pdf_file,
     method |-> data.method]

\* Mutant: the comparison is made on the file name, not on the detail_id.
check_if_already_parsed_byname(data, parsed_records) ==
    \E i \in 1..Len(parsed_records) :
        parsed_records[i].source_pdf_file = data.source_pdf_file

check_if_already_parsed(data, parsed_records) ==
    \E i \in 1..Len(parsed_records) :
        parsed_records[i].detail_id = DetailId(data.source_pdf_file)

\* load_checkpoints: the set in the file; set() when the file is missing or
\* cannot be read or parsed.
FileKeys(file) == IF file.state = "ok" THEN file.keys ELSE {}

load_checkpoints(file, read_ok) == IF read_ok THEN FileKeys(file) ELSE {}

\* load_parsed_data: the list in the file; [] when missing or unreadable.
FileRecords(file) == IF file.state = "ok" THEN file.records ELSE << >>

load_parsed_data(file, read_ok) == IF read_ok THEN FileRecords(file) ELSE << >>

\* Mutant: the processed set is not consulted.
get_unprocessed_pdfs_all(processed) ==
    SelectSeq(PdfOrder, LAMBDA f : TRUE)

get_unprocessed_pdfs(processed) ==
    SelectSeq(PdfOrder, LAMBDA f : f \notin processed)

----------------------------------------------------------------------------
(* Strings are sequences of one-character strings. *)

Whitespace == {" ", "\n", "\r"}

Str(n) == UNION {[1..k -> {"a", "A", " ", "\n", "\r"}] : k \in 0..n}

\* str.upper() on the letters that occur in the model
UpperChar(c) ==
    CASE c = "a" -> "A"
      [] c = "m" -> "M"
      [] c = "p" -> "P"
      [] OTHER   -> c

Upper(s) == [i \in 1..Len(s) |-> UpperChar(s[i])]

\* str.strip()
RECURSIVE LStrip(_)
LStrip(s) ==
    IF s # << >> /\ Head(s) \in Whitespace THEN LStrip(Tail(s)) ELSE s

RECURSIVE RStrip(_)
RStrip(s) ==
    IF s # << >> /\ s[Len(s)] \in Whitespace
    THEN RStrip(SubSeq(s, 1, Len(s) - 1)) ELSE s

Strip(s) == RStrip(LStrip(s))

\* str.replace("\r\n", " "), left to right, non-overlapping
RECURSIVE ReplaceCRLF(_)
ReplaceCRLF(s) ==
    IF s = << >> THEN << >>
    ELSE IF Len(s) >= 2 /\ s[1] = "\r" /\ s[2] = "\n"
    THEN <<" ">> \o ReplaceCRLF(SubSeq(s, 3, Len(s)))
    ELSE <<Head(s)>> \o ReplaceCRLF(Tail(s))

\* str.replace("\n", " ")
ReplaceLF(s) == [i \in 1..Len(s) |-> IF s[i] = "\n" THEN " " ELSE s[i]]

\* Mutant of Split: str.split(" "), which cuts at every single space and
\* keeps the empty words between adjacent spaces.
RECURSIVE SplitOnSpace(_)
SplitOnSpace(s) ==
    IF \A i \in 1..Len(s) : s[i] # " " THEN <<s>>
    ELSE LET k == CHOOSE i \in 1..Len(s) :
                     s[i] = " " /\ \A j \in 1..(i-1) : s[j] # " "
         IN  <<SubSeq(s, 1, k - 1)>> \o SplitOnSpace(SubSeq(s, k + 1, Len(s)))

\* str.split(): the words between runs of whitespace, no empty word
RECURSIVE Split(_)
Split(s) ==
    LET t == LStrip(s)
    IN  IF t = << >> THEN << >>
        ELSE IF \A i \in 1..Len(t) : t[i] \notin Whitespace THEN <<t>>
        ELSE LET k == CHOOSE i \in 1..Len(t) :
                         t[i] \in Whitespace
                         /\ \A j \in 1..(i-1) : t[j] \notin Whitespace
             IN  <<SubSeq(t, 1, k - 1)>> \o Split(SubSeq(t, k, Len(t)))

\* " ".join(words)
RECURSIVE Join(_)
Join(words) ==
    IF words = << >> THEN << >>
    ELSE IF Len(words) = 1 THEN words[1]
    ELSE words[1] \o <<" ">> \o Join(Tail(words))

\* a in b (Python substring test)
IsSubstring(a, b) ==
    \E i \in 0..(Len(b) - Len(a)) : SubSeq(b, i + 1, i + Len(a)) = a

----------------------------------------------------------------------------
(* scrape_collin_foreclosures_proxy copy 6.py : checkpoint keys *)

\* " ".join(address.replace("\r\n", " ").replace("\n", " ").split())
NormalizeAddress(address) == Join(Split(ReplaceLF(ReplaceCRLF(address))))

\* create_checkpoint_key(snap)
create_checkpoint_key(snap) ==
    [address       |-> NormalizeAddress(Strip(snap.address)),
     city          |-> Strip(snap.city),
     sale_date     |-> Strip(snap.sale_date),
     file_date     |-> Strip(snap.file_date),
     property_type |-> Strip(snap.property_type),
     pdf_downloaded |-> snap.pdf_downloaded]

\* load_processed_checkpoints applied to what save_checkpoint wrote: every
\* stored key comes back with its address normalized once more.
ReloadKey(cp) ==
    IF cp.address # << >>
    THEN [cp EXCEPT !.address = NormalizeAddress(cp.address)]
    ELSE cp

----------------------------------------------------------------------------
(* Initial values of each part *)

NoFile == [state |-> "absent", keys |-> {}]
NoData == [state |-> "absent", records |-> << >>]
NoParse == [blank |-> TRUE, ai_failed |-> FALSE, ok |-> FALSE]
NoDocument == [already |-> FALSE, store |-> "none"]

PdfIdle ==
    /\ checkpoint_file = NoFile
    /\ parsed_data_file = NoData
    /\ processed_pdfs = {}
    /\ proc = "down"
    /\ unprocessed_pdfs = << >>
    /\ runs = 0
    /\ api_called = {}
    /\ run_start_processed = {}
    /\ done_earlier = {}
    /\ done_this_run = {}
    /\ last_parse = NoParse
    /\ last_op = "none"
    /\ last_doc = NoDocument
    /\ attempted = {}

\* A list snapshot as snapshot_row returns it (pdf_downloaded is what
\* snap.get("pdf_downloaded", False) gives).
Snapshot(address, city, sale_date) ==
    [address |-> address, city |-> city, sale_date |-> sale_date,
     file_date |-> <<"f">>, property_type |-> <<"r">>,
     pdf_downloaded |-> FALSE]

NoSnapshot == Snapshot(<< >>, << >>, << >>)

NoCheck == [snap |-> NoSnapshot, method |-> "none"]

ScrapeIdle ==
    /\ rows_read = 0
    /\ processed_checkpoints = {}
    /\ all_rows = << >>
    /\ scrape_checkpoint_file = NoFile
    /\ results_file = NoData
    /\ scr = "down"
    /\ processed_listings = {}
    /\ skipped_listings = {}
    /\ last_scrape = "none"
    /\ last_check = NoCheck

KeyIdle ==
    /\ snap_a = NoSnapshot
    /\ snap_b = NoSnapshot
    /\ keyed = FALSE
    /\ key_a = NoSnapshot
    /\ key_b = NoSnapshot
    /\ key_reloaded = NoSnapshot

NoDoc == [pdfplumber |-> << >>, PyPDF2 |-> << >>,
          convert_ok |-> TRUE, OCR |-> << >>]

ExtractIdle ==
    /\ ex_doc = NoDoc
    /\ ex_pc = "idle"
    /\ ex_text = << >>
    /\ ex_tried = << >>
    /\ ex_result = << >>

NoKind == [object |-> 0, style |-> "none", wrap |-> "none"]
NoValue == [t |-> "lit", s |-> <<"null">>, m |-> << >>]

NoRecord == [made |-> FALSE, raised |-> FALSE, borrower_names |-> NoValue,
             attorney_info |-> NoValue, total_debt |-> NoValue]

JsonIdle ==
    /\ response = << >>
    /\ response_kind = NoKind
    /\ json_done = FALSE
    /\ json_result = NoValue
    /\ parsed_record = NoRecord

NoFallback == [returned |-> FALSE, property_address |-> << >>,
               defendant |-> << >>, borrower_names |-> << >>,
               total_debt |-> << >>, deed_of_trust_date |-> << >>,
               ai_confidence |-> ""]

FallbackIdle ==
    /\ fb_lines = << >>
    /\ fb_done = FALSE
    /\ fb_result = NoFallback

ApiIdle ==
    /\ text_len = 0
    /\ sent_len = 0
    /\ api_pc = "idle"
    /\ attempt = 0
    /\ api_requests = 0
    /\ successful_requests = 0
    /\ failed_requests = 0
    /\ api_calls = 0
    /\ api_log = << >>
    /\ api_last = "none"
    /\ api_return = "none"

NoUpload == [detail_id |-> "", write |-> "none", result |-> FALSE]

UploadIdle ==
    /\ combined_records = << >>
    /\ col_a_values = 0
    /\ sheet = {}
    /\ upload_checkpoint_file = NoFile
    /\ processed_records = {}
    /\ up = "down"
    /\ new_records = << >>
    /\ batch_i = 0
    /\ start_row = 0
    /\ upload_runs = 0
    /\ last_upload = NoUpload
    /\ last_save = "none"
    /\ failed_writes = {}
    /\ written_ids = {}
    /\ failed_before = {}

----------------------------------------------------------------------------
(* parse_foreclosure_pdfs.py : state machine *)

\* The directories modelled: a.pdf and a.pdf.pdf, which share a detail_id,
\* hold any kind of text; b.pdf holds a text the fallback patterns match.
PdfDirectories ==
    {t \in [PdfFiles -> PdfTexts] :
        fallback_extraction(t[PdfOrder[Len(PdfOrder)]]).ok}

InitPdf ==
    /\ pdf_text \in PdfDirectories
    /\ PdfIdle
    /\ ScrapeIdle
    /\ KeyIdle
    /\ ExtractIdle
    /\ JsonIdle
    /\ FallbackIdle
    /\ ApiIdle
    /\ UploadIdle

\* ForeClosurePDFProcessor.__init__ -> ForeClosureJSONUpdater.__init__:
\* processed_pdfs = load_checkpoints().
StartProcess ==
    /\ proc = "down"
    /\ \E read_ok \in BOOLEAN :
          \* os.path.exists is False: no read, no exception
          /\ checkpoint_file.state = "absent" => read_ok
          /\ processed_pdfs' = load_checkpoints(checkpoint_file, read_ok)
    /\ proc' = "idle"
    /\ last_op' = "none"
    /\ last_doc' = NoDocument
    /\ UNCHANGED <<pdf_text, checkpoint_file, parsed_data_file,
                   unprocessed_pdfs, runs, api_called, run_start_processed,
                   done_earlier, done_this_run, last_parse, attempted>>

\* process_all_pdfs up to its loop: the list of unprocessed files is taken
\* once, at the start of the run.
process_all_pdfs ==
    /\ proc = "idle"
    /\ runs < MaxRuns
    /\ runs' = runs + 1
    /\ unprocessed_pdfs' = get_unprocessed_pdfs(processed_pdfs)
    /\ proc' = "running"
    /\ api_called' = {}
    /\ run_start_processed' = processed_pdfs
    /\ done_earlier' = done_earlier \cup done_this_run
    /\ done_this_run' = {}
    /\ attempted' = {}
    /\ last_op' = "none"
    /\ last_doc' = NoDocument
    /\ UNCHANGED <<pdf_text, checkpoint_file, parsed_data_file,
                   processed_pdfs, last_parse>>

\* What writing a file with open(path, 'w') + json.dump leaves on disk:
\* the new content, the old file (open failed), or a truncated file (the
\* process was killed part-way).
WriteKeys(old, keys, outcome) ==
    CASE outcome = "ok"        -> [state |-> "ok", keys |-> keys]
      [] outcome = "error"     -> old
      [] outcome = "killed"    -> [state |-> "partial", keys |-> {}]

WriteRecords(old, records, outcome) ==
    CASE outcome = "ok"        -> [state |-> "ok", records |-> records]
      [] outcome = "error"     -> old

\* One iteration of the loop of process_all_pdfs: process_single_pdf(f) =
\* parse_pdf, then save_parsed_pdf_data (load the store, skip if the
\* detail_id is there, else append, save_parsed_data, add to processed_pdfs,
\* save_checkpoints).  save_parsed_data swallows its write error;
\* an error of save_checkpoints makes save_parsed_pdf_data return False.
\* for pdf_path in unprocessed_pdfs: success = process_single_pdf(pdf_path):
\* the rest of the list after one pass, whatever success is
AfterDocument_stop(list, success) == IF success THEN Tail(list) ELSE << >>

AfterDocument(list, success) == Tail(list)

process_single_pdf ==
    /\ proc = "running"
    /\ unprocessed_pdfs # << >>
    /\ \E first_json \in {0, 1}, store_read \in BOOLEAN,
          record_raises \in BOOLEAN, store_write \in {"ok", "error"},
          ck_write \in {"ok", "error", "killed"} :
        LET f       == Head(unprocessed_pdfs)
            data    == parse_pdf(f, pdf_text[f], first_json)
            records == load_parsed_data(parsed_data_file, store_read)
            already == check_if_already_parsed(data, records)
            saving  == data.ok /\ ~already /\ ~record_raises
            killed  == saving /\ ck_write = "killed"
            success == data.ok /\ (already \/ (saving /\ ck_write = "ok"))
        IN  \* no attempt gives an object, or the first one does; a later
            \* attempt that does leads to the same state as the first.
            \* An input that is not read in this pass is held at one value.
            /\ pdf_text[f].blank => first_json = 0
            /\ ~data.ok => store_read
            \* os.path.exists is False: no read, no exception
            /\ parsed_data_file.state = "absent" => store_read
            /\ (~data.ok \/ already) => ~record_raises
            /\ ~saving => (store_write = "ok" /\ ck_write = "ok")
            /\ api_called' = IF data.calls > 0 THEN api_called \cup {f} ELSE api_called
            /\ last_parse' = [blank |-> pdf_text[f].blank,
                              ai_failed |-> data.method # "AI",
                              ok |-> data.ok]
            /\ parsed_data_file' =
                  IF saving
                  THEN WriteRecords(parsed_data_file,
                          Append(records, create_parsed_record(data)),
                          store_write)
                  ELSE parsed_data_file
            /\ checkpoint_file' =
                  IF saving
                  THEN WriteKeys(checkpoint_file, processed_pdfs \cup {f},
                                 ck_write)
                  ELSE checkpoint_file
            /\ processed_pdfs' =
                  IF killed THEN {}
                  ELSE IF saving THEN processed_pdfs \cup {f}
                  ELSE processed_pdfs
            /\ done_this_run' =
                  IF saving /\ store_write = "ok" /\ ck_write = "ok"
                  THEN done_this_run \cup {f} ELSE done_this_run
            /\ unprocessed_pdfs' =
                  IF killed THEN << >>
                  ELSE AfterDocument(unprocessed_pdfs, success)
            /\ attempted' = IF killed THEN {} ELSE attempted \cup {f}
            /\ proc' = IF killed THEN "down" ELSE "running"
            /\ last_op' = IF saving THEN ck_write ELSE "none"
            /\ last_doc' = [already |-> data.ok /\ already,
                            store |-> IF saving THEN store_write ELSE "none"]
    /\ UNCHANGED <<pdf_text, runs, run_start_processed, done_earlier>>

\* process_all_pdfs returns when its list is exhausted.
FinishRun ==
    /\ proc = "running"
    /\ unprocessed_pdfs = << >>
    /\ proc' = "idle"
    /\ last_op' = "none"
    /\ last_doc' = NoDocument
    /\ attempted' = {}
    /\ UNCHANGED <<pdf_text, checkpoint_file, parsed_data_file,
                   processed_pdfs, unprocessed_pdfs, runs, api_called,
                   run_start_processed, done_earlier, done_this_run,
                   last_parse>>

\* The process ends between two documents (main returns, KeyboardInterrupt,
\* kill): what is in memory is gone, the files stay.  The run is over: what
\* it stored counts as stored by an earlier run from here on.
StopProcess ==
    /\ proc \in {"idle", "running"}
    /\ proc' = "down"
    /\ processed_pdfs' = {}
    /\ unprocessed_pdfs' = << >>
    /\ last_op' = "none"
    /\ last_doc' = NoDocument
    /\ attempted' = {}
    /\ api_called' = {}
    /\ run_start_processed' = {}
    /\ done_earlier' = done_earlier \cup done_this_run
    /\ done_this_run' = {}
    /\ last_parse' = NoParse
    /\ UNCHANGED <<pdf_text, checkpoint_file, parsed_data_file, runs>>

NextPdf ==
    \/ StartProcess /\ UNCHANGED <<scrapeVars, keyVars, extractVars, jsonVars, fallbackVars, apiVars, uploadVars>>
    \/ process_all_pdfs /\ UNCHANGED <<scrapeVars, keyVars, extractVars, jsonVars, fallbackVars, apiVars, uploadVars>>
    \/ process_single_pdf /\ UNCHANGED <<scrapeVars, keyVars, extractVars, jsonVars, fallbackVars, apiVars, uploadVars>>
    \/ FinishRun /\ UNCHANGED <<scrapeVars, keyVars, extractVars, jsonVars, fallbackVars, apiVars, uploadVars>>
    \/ StopProcess /\ UNCHANGED <<scrapeVars, keyVars, extractVars, jsonVars, fallbackVars, apiVars, uploadVars>>

SpecPdf == InitPdf /\ [][NextPdf]_vars

----------------------------------------------------------------------------
(* scrape_collin_foreclosures_proxy copy 6.py : scrape_all (SpecScrape) *)

\* The listings the site shows: "12 M" and "112 M" in the same city, "12 M"
\* listed again with another sale date, and "12 M" with other spacing and
\* other letter case.
Listings ==
    { Snapshot(<<"1", "2", " ", "M">>,      <<"P">>, <<"d">>),
      Snapshot(<<"1", "1", "2", " ", "M">>, <<"P">>, <<"d">>),
      Snapshot(<<"1", "2", " ", "M">>,      <<"P">>, <<"e">>),
      Snapshot(<<"1", "2", " ", " ", "M">>, <<"P">>, <<"d">>),
      Snapshot(<<"1", "2", " ", "m">>,      <<"P">>, <<"d">>) }


\* What scrape_detail_page_in_new_tab returns for a row: None, or a dict
\* whose city, full_address and PDF status overwrite the snapshot's.
DetailData(snap) ==
    { [none |-> TRUE,  city |-> << >>, full_address |-> << >>,
       pdf_downloaded |-> FALSE],
      [none |-> FALSE, city |-> << >>, full_address |-> << >>,
       pdf_downloaded |-> FALSE],
      [none |-> FALSE, city |-> snap.city,
       full_address |-> snap.address \o <<" ">> \o snap.city,
       pdf_downloaded |-> FALSE],
      [none |-> FALSE, city |-> snap.city,
       full_address |-> snap.address \o <<" ">> \o snap.city,
       pdf_downloaded |-> TRUE] }

\* snap.update(detail_data), sale_date and file_date kept from the list
MergeDetail(snap, detail) ==
    IF detail.none
    THEN [address |-> snap.address, city |-> snap.city,
          sale_date |-> snap.sale_date, file_date |-> snap.file_date,
          property_type |-> snap.property_type, pdf_downloaded |-> FALSE,
          full_address |-> << >>]
    ELSE [address |-> snap.address, city |-> detail.city,
          sale_date |-> snap.sale_date, file_date |-> snap.file_date,
          property_type |-> snap.property_type,
          pdf_downloaded |-> detail.pdf_downloaded,
          full_address |-> detail.full_address]

\* Method 2 of is_already_processed, for one stored row
ExistingDataMatch(snap_address, snap_city, existing) ==
    LET existing_addresses == { Upper(Strip(existing.address)),
                                Upper(Strip(existing.full_address)) }
        city == Upper(Strip(existing.city))
    IN  \E addr \in existing_addresses :
            /\ addr # << >>
            /\ snap_address # << >>
            /\ IsSubstring(snap_address, addr) \/ IsSubstring(addr, snap_address)
            /\ city # << >>
            /\ snap_city # << >>
            /\ snap_city = city

\* Method 3 of is_already_processed, for one stored row
AddressMatch(snap_address, snap_city, existing) ==
    LET existing_full == Upper(Strip(existing.address \o <<" ">> \o existing.city))
        snap_full     == Strip(snap_address \o <<" ">> \o snap_city)
    IN  /\ snap_address # << >>
        /\ snap_city # << >>
        /\ existing_full # << >>
        /\ snap_full # << >>
        /\ IsSubstring(snap_full, existing_full)
              \/ IsSubstring(existing_full, snap_full)

\* is_already_processed with the two address methods consulted before the
\* checkpoint set
is_already_processed_address_first(snap, checkpoints, existing_results) ==
    LET snap_address == Upper(Strip(snap.address))
        snap_city    == Upper(Strip(snap.city))
        rows         == 1..Len(existing_results)
    IN  IF \E i \in rows :
              ExistingDataMatch(snap_address, snap_city, existing_results[i])
        THEN "existing_data"
        ELSE IF \E i \in rows :
                   AddressMatch(snap_address, snap_city, existing_results[i])
        THEN "address_match"
        ELSE IF create_checkpoint_key(snap) \in checkpoints THEN "checkpoint"
        ELSE "none"

\* is_already_processed: the method that reports the listing processed
is_already_processed(snap, checkpoints, existing_results) ==
    LET snap_address == Upper(Strip(snap.address))
        snap_city    == Upper(Strip(snap.city))
        rows         == 1..Len(existing_results)
    IN  IF create_checkpoint_key(snap) \in checkpoints THEN "checkpoint"
        ELSE IF \E i \in rows :
                   ExistingDataMatch(snap_address, snap_city, existing_results[i])
        THEN "existing_data"
        ELSE IF \E i \in rows :
                   AddressMatch(snap_address, snap_city, existing_results[i])
        THEN "address_match"
        ELSE "none"

\* load_processed_checkpoints
load_processed_checkpoints(file, read_ok) ==
    IF read_ok THEN {ReloadKey(cp) : cp \in FileKeys(file)} ELSE {}

\* load_existing_results
load_existing_results(file, read_ok) ==
    IF read_ok THEN FileRecords(file) ELSE << >>

\* The listing a snapshot stands for: its attributes without incidental
\* formatting.
Identity(snap) ==
    [address |-> Upper(NormalizeAddress(Strip(snap.address))),
     city |-> Upper(Strip(snap.city)),
     sale_date |-> Strip(snap.sale_date),
     file_date |-> Strip(snap.file_date),
     property_type |-> Strip(snap.property_type)]

InitScrape ==
    /\ pdf_text = [f \in PdfFiles |-> CHOOSE t \in PdfTexts : t.blank]
    /\ PdfIdle
    /\ ScrapeIdle
    /\ KeyIdle
    /\ ExtractIdle
    /\ JsonIdle
    /\ FallbackIdle
    /\ ApiIdle
    /\ UploadIdle

\* scrape_all up to its loop: the checkpoints and the stored results are
\* loaded and the list page is opened.
scrape_start ==
    /\ scr = "down"
    /\ \E ck_read \in BOOLEAN, res_read \in BOOLEAN :
          /\ processed_checkpoints' =
                load_processed_checkpoints(scrape_checkpoint_file, ck_read)
          /\ all_rows' = load_existing_results(results_file, res_read)
    /\ scr' = "scraping"
    /\ last_scrape' = "none"
    /\ last_check' = NoCheck
    /\ UNCHANGED <<rows_read, scrape_checkpoint_file, results_file,
                   processed_listings, skipped_listings>>

\* One iteration of the row loop of scrape_all, on the row that
\* snapshot_row(drv, i) reads from the page at that moment: skip the row if
\* is_already_processed says so; else scrape its detail page, append the row,
\* add its key and save_checkpoint.  An exception of save_checkpoint is not
\* caught: it ends scrape_all and the program, before write_outputs.
scrape_row ==
    /\ scr = "scraping"
    /\ rows_read < MaxRows
    /\ rows_read' = rows_read + 1
    /\ \E snap \in Listings :
       LET method == is_already_processed(snap, processed_checkpoints, all_rows)
       IN  IF method # "none"
           THEN /\ skipped_listings' = skipped_listings \cup {Identity(snap)}
                /\ last_scrape' = "skipped"
                /\ last_check' = [snap |-> snap, method |-> method]
                /\ UNCHANGED <<processed_checkpoints, all_rows,
                               scrape_checkpoint_file, results_file, scr,
                               processed_listings>>
           ELSE \E detail \in DetailData(snap),
                   ck_write \in {"ok", "error", "killed"} :
                  LET row  == MergeDetail(snap, detail)
                      keys == processed_checkpoints
                                \cup {create_checkpoint_key(row)}
                      goes_on == ck_write = "ok"
                  IN  /\ processed_listings' =
                            processed_listings \cup {Identity(snap)}
                      /\ scrape_checkpoint_file' =
                            WriteKeys(scrape_checkpoint_file, keys, ck_write)
                      /\ all_rows' =
                            IF goes_on THEN Append(all_rows, row) ELSE << >>
                      /\ processed_checkpoints' =
                            IF goes_on THEN keys ELSE {}
                      /\ scr' = IF goes_on THEN "scraping" ELSE "down"
                      /\ last_scrape' = ck_write
                      /\ last_check' = [snap |-> snap, method |-> method]
                      /\ UNCHANGED <<results_file, skipped_listings>>

\* The page has no more rows: the loop is over, scrape_all returns all_rows
\* and __main__ writes them with write_outputs.
scrape_finish ==
    /\ scr = "scraping"
    /\ \E write \in {"ok", "error"} :
          /\ results_file' = WriteRecords(results_file, all_rows, write)
          /\ last_scrape' = IF write = "ok" THEN "written" ELSE "write_error"
    /\ scr' = "down"
    /\ all_rows' = << >>
    /\ processed_checkpoints' = {}
    /\ last_check' = NoCheck
    /\ UNCHANGED <<rows_read, scrape_checkpoint_file, processed_listings,
                   skipped_listings>>

\* The run is interrupted between two rows (KeyboardInterrupt, a WebDriver
\* exception of snapshot_row or click_next_page, a kill): nothing in
\* scrape_all or __main__ catches it, write_outputs is not reached.
scrape_interrupt ==
    /\ scr = "scraping"
    /\ scr' = "down"
    /\ all_rows' = << >>
    /\ processed_checkpoints' = {}
    /\ last_scrape' = "interrupted"
    /\ last_check' = NoCheck
    /\ UNCHANGED <<rows_read, scrape_checkpoint_file, results_file,
                   processed_listings, skipped_listings>>

NextScrape ==
    \/ scrape_start /\ UNCHANGED <<pdfVars, keyVars, extractVars, jsonVars, fallbackVars, apiVars, uploadVars>>
    \/ scrape_row /\ UNCHANGED <<pdfVars, keyVars, extractVars, jsonVars, fallbackVars, apiVars, uploadVars>>
    \/ scrape_finish /\ UNCHANGED <<pdfVars, keyVars, extractVars, jsonVars, fallbackVars, apiVars, uploadVars>>
    \/ scrape_interrupt /\ UNCHANGED <<pdfVars, keyVars, extractVars, jsonVars, fallbackVars, apiVars, uploadVars>>

SpecScrape == InitScrape /\ [][NextScrape]_vars

----------------------------------------------------------------------------
(* create_checkpoint_key on pairs of snapshots (SpecKey) *)

InitKey ==
    /\ pdf_text = [f \in PdfFiles |-> CHOOSE t \in PdfTexts : t.blank]
    /\ PdfIdle
    /\ ScrapeIdle
    /\ \E a, b \in Str(MaxLen) :
          /\ snap_a = Snapshot(a, <<"P">>, <<"d">>)
          /\ snap_b = Snapshot(b, <<"P">>, <<"d">>)
    /\ keyed = FALSE
    /\ key_a = NoSnapshot
    /\ key_b = NoSnapshot
    /\ key_reloaded = NoSnapshot
    /\ ExtractIdle
    /\ JsonIdle
    /\ FallbackIdle
    /\ ApiIdle
    /\ UploadIdle

\* is_already_processed / scrape_all compute the key of a snapshot; the key
\* is saved and normalized again by load_processed_checkpoints.
CreateKeys ==
    /\ ~keyed
    /\ keyed' = TRUE
    /\ key_a' = create_checkpoint_key(snap_a)
    /\ key_b' = create_checkpoint_key(snap_b)
    /\ key_reloaded' = ReloadKey(create_checkpoint_key(snap_a))
    /\ UNCHANGED <<snap_a, snap_b>>

NextKey == CreateKeys /\ UNCHANGED <<pdfVars, scrapeVars, extractVars, jsonVars, fallbackVars, apiVars, uploadVars>>

SpecKey == InitKey /\ [][NextKey]_vars

----------------------------------------------------------------------------
(* PDFTextExtractor.extract_pdf_text on one document (SpecExtract) *)

\* Pages a modelled document has at most.
MaxPages == 2

min_text_chars == 100
min_ocr_chars == 50

\* What a library gives for one page: it raises, or it gives so many
\* characters of text (0: None or an empty string).
Raises == [raises |-> TRUE, chars |-> 0]
PageText(n) == [raises |-> FALSE, chars |-> n]

PageOutcomes == {Raises, PageText(0), PageText(60), PageText(101)}
OcrOutcomes == {Raises, PageText(0), PageText(43), PageText(101)}

Documents ==
    UNION {[pdfplumber : [1..n -> PageOutcomes],
            PyPDF2 : [1..n -> PageOutcomes],
            convert_ok : BOOLEAN,
            OCR : [1..n -> OcrOutcomes]] : n \in 1..MaxPages}

\* A string is a sequence of pieces; a piece records which library produced
\* its characters and how many they are.
Piece(by, n) == [by |-> by, n |-> n]
Newline == Piece("newline", 1)

RECURSIVE TextLen(_)
TextLen(text) ==
    IF text = << >> THEN 0 ELSE Head(text).n + TextLen(Tail(text))

\* str.strip() on a text whose page texts neither begin nor end in whitespace
RECURSIVE StripLeft(_)
StripLeft(text) ==
    IF text # << >> /\ Head(text) = Newline THEN StripLeft(Tail(text)) ELSE text

RECURSIVE StripRight(_)
StripRight(text) ==
    IF text # << >> /\ text[Len(text)] = Newline
    THEN StripRight(SubSeq(text, 1, Len(text) - 1))
    ELSE text

StripText(text) == StripRight(StripLeft(text))

\* text.strip() and len(text.strip()) > threshold
Meaningful_any(text, threshold) == TRUE

Meaningful_ocr_threshold(text, threshold) ==
    /\ StripText(text) # << >>
    /\ TextLen(StripText(text)) > min_ocr_chars

Meaningful(text, threshold) ==
    /\ StripText(text) # << >>
    /\ TextLen(StripText(text)) > threshold

\* with pdfplumber.open(...): for page in pdf.pages: ... ; the pages before
\* a raising one have already been added to text.
RECURSIVE PdfplumberPages(_, _, _)
PdfplumberPages(text, pages, i) ==
    IF i > Len(pages) THEN [text |-> text, raised |-> FALSE]
    ELSE IF pages[i].raises THEN [text |-> text, raised |-> TRUE]
    ELSE IF pages[i].chars = 0 THEN PdfplumberPages(text, pages, i + 1)
    ELSE PdfplumberPages(text \o <<Piece("pdfplumber", pages[i].chars), Newline>>,
                         pages, i + 1)

\* for page in pdf_reader.pages: text += page.extract_text() + "\n"
RECURSIVE PyPDF2Pages(_, _, _)
PyPDF2Pages(text, pages, i) ==
    IF i > Len(pages) THEN [text |-> text, raised |-> FALSE]
    ELSE IF pages[i].raises THEN [text |-> text, raised |-> TRUE]
    ELSE IF pages[i].chars = 0 THEN PyPDF2Pages(text \o <<Newline>>, pages, i + 1)
    ELSE PyPDF2Pages(text \o <<Piece("PyPDF2", pages[i].chars), Newline>>,
                     pages, i + 1)

\* for i, image in enumerate(images): a page whose OCR raises is skipped;
\* "PAGE i:" is seven characters.
RECURSIVE OcrPages(_, _, _)
OcrPages(ocr_text, images, i) ==
    IF i > Len(images) THEN ocr_text
    ELSE IF images[i].raises \/ images[i].chars = 0
    THEN OcrPages(ocr_text, images, i + 1)
    ELSE OcrPages(ocr_text \o <<Piece("page label", 7), Newline,
                                Piece("OCR", images[i].chars), Newline, Newline>>,
                  images, i + 1)

\* The strategies whose try block has an except Exception clause.
Caught == {"pdfplumber", "PyPDF2", "OCR"}

InitExtract ==
    /\ pdf_text = [f \in PdfFiles |-> CHOOSE t \in PdfTexts : t.blank]
    /\ PdfIdle
    /\ ScrapeIdle
    /\ KeyIdle
    /\ JsonIdle
    /\ FallbackIdle
    /\ ApiIdle
    /\ UploadIdle
    /\ ex_doc \in Documents
    /\ ex_pc = "pdfplumber"
    /\ ex_text = << >>
    /\ ex_tried = << >>
    /\ ex_result = << >>

\* One try block: what it leaves in text, and where control goes next.
Strategy_goes_on(name, run, candidate, threshold, next_pc) ==
    /\ ex_pc = name
    /\ ex_tried' = Append(ex_tried, name)
    /\ IF next_pc = "returned"
       THEN ex_pc' = "returned" /\ ex_result' = candidate
       ELSE ex_pc' = next_pc /\ ex_result' = ex_result
    /\ UNCHANGED ex_doc

Strategy(name, run, candidate, threshold, next_pc) ==
    /\ ex_pc = name
    /\ ex_tried' = Append(ex_tried, name)
    /\ IF run.raised /\ name \notin Caught
       THEN ex_pc' = "raised" /\ ex_result' = ex_result
       ELSE IF ~run.raised /\ Meaningful(candidate, threshold)
       THEN ex_pc' = "returned" /\ ex_result' = candidate
       ELSE IF next_pc = "returned"
       THEN ex_pc' = "returned" /\ ex_result' = << >>
       ELSE ex_pc' = next_pc /\ ex_result' = ex_result
    /\ UNCHANGED ex_doc

try_pdfplumber ==
    LET run == PdfplumberPages(ex_text, ex_doc.pdfplumber, 1) IN
    /\ Strategy("pdfplumber", run, run.text, min_text_chars, "PyPDF2")
    /\ ex_text' = run.text

try_PyPDF2 ==
    LET run == PyPDF2Pages(ex_text, ex_doc.PyPDF2, 1) IN
    /\ Strategy("PyPDF2", run, run.text, min_text_chars, "OCR")
    /\ ex_text' = run.text

try_OCR ==
    LET ocr_text == IF ex_doc.convert_ok THEN OcrPages(<< >>, ex_doc.OCR, 1)
                    ELSE << >>
        run == [text |-> ocr_text, raised |-> ~ex_doc.convert_ok] IN
    /\ Strategy("OCR", run, ocr_text, min_ocr_chars, "returned")
    /\ UNCHANGED ex_text

NextExtract ==
    \/ try_pdfplumber /\ UNCHANGED <<pdfVars, scrapeVars, keyVars, jsonVars, fallbackVars, apiVars, uploadVars>>
    \/ try_PyPDF2 /\ UNCHANGED <<pdfVars, scrapeVars, keyVars, jsonVars, fallbackVars, apiVars, uploadVars>>
    \/ try_OCR /\ UNCHANGED <<pdfVars, scrapeVars, keyVars, jsonVars, fallbackVars, apiVars, uploadVars>>

SpecExtract == InitExtract /\ [][NextExtract]_vars

----------------------------------------------------------------------------
(* GeminiForeClosureParser._extract_json_from_response (SpecJson)           *)
(*                                                                          *)
(* A response is a sequence of tokens: a punctuation character, a blank, a  *)
(* line break, a code fence (three backquotes, written "<fence>"), or a    *)
(* word (a maximal run of \w characters).                                  *)
(* No two words are adjacent in a response, so that joining the tokens and  *)
(* splitting them again gives the same sequence.                            *)

Punctuation == {"{", "}", "[", "]", "\"", "'", ":", ",", " ", "\n", "<fence>"}

IsWord(t) == t \notin Punctuation /\ t # ""

IsSpace(t) == t \in {" ", "\n"}

\* s[i], or "" outside the string
At(s, i) == IF i \in 1..Len(s) THEN s[i] ELSE ""

\* str.find(t, start): the first index from start on, 0 when there is none
RECURSIVE Find(_, _, _)
Find(s, t, start) ==
    IF start > Len(s) THEN 0
    ELSE IF s[start] = t THEN start
    ELSE Find(s, t, start + 1)

\* str.rfind(t) below or at index end, 0 when there is none
RECURSIVE RFind(_, _, _)
RFind(s, t, end) ==
    IF end < 1 THEN 0
    ELSE IF s[end] = t THEN end
    ELSE RFind(s, t, end - 1)

\* the first index from i on that holds no whitespace (Len(s) + 1 if none)
RECURSIVE SkipSpace(_, _)
SkipSpace(s, i) ==
    IF i <= Len(s) /\ IsSpace(s[i]) THEN SkipSpace(s, i + 1) ELSE i

\* response_text.lower().find(fence + "json"): a code fence directly
\* followed by the word json in either case
RECURSIVE FindJsonFence(_, _)
FindJsonFence(s, i) ==
    IF i >= Len(s) THEN 0
    ELSE IF s[i] = "<fence>" /\ s[i + 1] \in {"json", "JSON"} THEN i
    ELSE FindJsonFence(s, i + 1)

\* "Remove markdown if present"
StripFence(response_text) ==
    LET fenced == FindJsonFence(response_text, 1)
        first == Find(response_text, "<fence>", 1)
        last == RFind(response_text, "<fence>", Len(response_text)) IN
    IF fenced # 0
    THEN LET end == Find(response_text, "<fence>", fenced + 2) IN
         IF end # 0 THEN Strip(SubSeq(response_text, fenced + 2, end - 1))
         ELSE response_text
    ELSE IF first # 0 /\ last > first + 1
    THEN Strip(SubSeq(response_text, first + 1, last - 1))
    ELSE response_text

\* response_text[find('{') : rfind('}') + 1], << >> when the test on the
\* two indices fails
Braced(text) ==
    LET json_start == Find(text, "{", 1)
        last == RFind(text, "}", Len(text)) IN
    IF json_start # 0 /\ last >= json_start
    THEN SubSeq(text, json_start, last)
    ELSE << >>

\* index of the last "JSON:" in the text, 0 when there is none
RECURSIVE LastMarker(_, _)
LastMarker(s, i) ==
    IF i < 1 THEN 0
    ELSE IF s[i] = "JSON" /\ At(s, i + 1) = ":" THEN i
    ELSE LastMarker(s, i - 1)

\* json_attempts
Candidates(response_text) ==
    LET marker == LastMarker(response_text, Len(response_text))
        json_part == Strip(SubSeq(response_text, marker + 2, Len(response_text)))
    IN  (IF Braced(response_text) # << >> THEN <<Braced(response_text)>> ELSE << >>)
        \o (IF marker # 0 /\ Braced(json_part) # << >>
            THEN <<Braced(json_part)>> ELSE << >>)
        \o <<response_text>>

\* json_str.replace("'", '"')
ReplaceQuotes(s) == [i \in 1..Len(s) |-> IF s[i] = "'" THEN "\"" ELSE s[i]]

\* re.sub(r',\s*}', '}', s) and re.sub(r',\s*]', ']', s), by the bracket
RECURSIVE RemoveTrailingComma(_, _)
RemoveTrailingComma(s, bracket) ==
    IF s = << >> THEN << >>
    ELSE IF Head(s) = "," /\ At(s, SkipSpace(s, 2)) = bracket
    THEN <<bracket>> \o RemoveTrailingComma(SubSeq(s, SkipSpace(s, 2) + 1, Len(s)),
                                           bracket)
    ELSE <<Head(s)>> \o RemoveTrailingComma(Tail(s), bracket)

\* re.sub(r'(?<!\\)"([^"]*?)\\([^"]*?)"(?!\s*:)', ...): the pattern needs a
\* backslash, and no token holds one
EscapeBackslashes(s) == IF \E i \in DOMAIN s : s[i] = "\\" THEN << >> ELSE s

\* re.sub(r'(\w+):', r'"\1":', s)
RECURSIVE QuoteKeys(_)
QuoteKeys(s) ==
    IF s = << >> THEN << >>
    ELSE IF IsWord(Head(s)) /\ At(s, 2) = ":"
    THEN <<"\"", Head(s), "\"", ":">> \o QuoteKeys(SubSeq(s, 3, Len(s)))
    ELSE <<Head(s)>> \o QuoteKeys(Tail(s))

\* re.sub(r'""(\w+)"":', r'"\1":', s)
RECURSIVE UnDoubleQuotes(_)
UnDoubleQuotes(s) ==
    IF s = << >> THEN << >>
    ELSE IF /\ Len(s) >= 6
            /\ s[1] = "\"" /\ s[2] = "\"" /\ IsWord(s[3])
            /\ s[4] = "\"" /\ s[5] = "\"" /\ s[6] = ":"
    THEN <<"\"", s[3], "\"", ":">> \o UnDoubleQuotes(SubSeq(s, 7, Len(s)))
    ELSE <<Head(s)>> \o UnDoubleQuotes(Tail(s))

\* the first index from i on where a run of whitespace with a line break in
\* it begins, looking no further than index last (0 when there is none)
RECURSIVE BreakRun(_, _, _)
BreakRun(s, i, last) ==
    IF i > last THEN 0
    ELSE IF ~IsSpace(s[i]) THEN BreakRun(s, i + 1, last)
    ELSE LET after == SkipSpace(s, i) IN
         IF \E k \in i..(after - 1) : s[k] = "\n" THEN i
         ELSE BreakRun(s, after, last)

\* re.sub(r'"\s*([^"]*?)\s*\n\s*([^"]*?)\s*"', r'"\1 \2"', s): between a
\* quote and the next quote, the first whitespace run with a line break
\* becomes one blank and the whitespace next to the two quotes goes.
RECURSIVE JoinLines(_)
JoinLines(s) ==
    IF s = << >> THEN << >>
    ELSE IF Head(s) # "\"" THEN <<Head(s)>> \o JoinLines(Tail(s))
    ELSE LET close == Find(s, "\"", 2)
             run == BreakRun(s, 2, close - 1) IN
         IF close = 0 THEN s
         ELSE IF run = 0 THEN <<Head(s)>> \o JoinLines(Tail(s))
         ELSE <<"\"">> \o LStrip(SubSeq(s, 2, run - 1)) \o <<" ">>
              \o RStrip(SubSeq(s, SkipSpace(s, run), close - 1)) \o <<"\"">>
              \o JoinLines(SubSeq(s, close + 1, Len(s)))

\* "Enhanced JSON repairs", in the order of the code
Repair(json_str) ==
    JoinLines(UnDoubleQuotes(QuoteKeys(EscapeBackslashes(
        RemoveTrailingComma(RemoveTrailingComma(ReplaceQuotes(Strip(json_str)),
                                                "}"), "]")))))

\* Python values: None, a str (its tokens), a literal (number, true, false,
\* null), a list, a dict (a function from keys to values).
Value(t, s, m) == [t |-> t, s |-> s, m |-> m]
None == NoValue
StrVal(content) == Value("str", content, << >>)
LitVal(word) == Value("lit", <<word>>, << >>)
ArrVal(items) == Value("arr", << >>, items)
ObjVal(members) == Value("obj", << >>, members)

\* the words json.loads reads as a value outside a string
JsonLiterals == {"null", "true", "false", "1", "10", "12345"}

ParseError == [ok |-> FALSE, v |-> None, i |-> 0]
Parsed(v, i) == [ok |-> TRUE, v |-> v, i |-> i]

\* a string that opens at s[i]: it runs to the next quote and holds no
\* line break
ParseString(s, i) ==
    LET close == Find(s, "\"", i + 1) IN
    IF close = 0 \/ \E k \in (i + 1)..(close - 1) : s[k] = "\n"
    THEN ParseError
    ELSE Parsed(StrVal(SubSeq(s, i + 1, close - 1)), close + 1)

\* dict[key] = value
Put(members, key, value) ==
    [k \in DOMAIN members \cup {key} |->
        IF k = key THEN value ELSE members[k]]

\* json.JSONDecoder: a value that begins at or after s[i]
RECURSIVE ParseValue(_, _)
RECURSIVE ParseMembers(_, _, _)
RECURSIVE ParseItems(_, _, _)
ParseValue(s, i) ==
    LET at == SkipSpace(s, i) IN
    CASE At(s, at) = "\"" -> ParseString(s, at)
      [] At(s, at) = "{" ->
            IF At(s, SkipSpace(s, at + 1)) = "}"
            THEN Parsed(ObjVal(<< >>), SkipSpace(s, at + 1) + 1)
            ELSE ParseMembers(s, SkipSpace(s, at + 1), << >>)
      [] At(s, at) = "[" ->
            IF At(s, SkipSpace(s, at + 1)) = "]"
            THEN Parsed(ArrVal(<< >>), SkipSpace(s, at + 1) + 1)
            ELSE ParseItems(s, at + 1, << >>)
      [] At(s, at) \in JsonLiterals -> Parsed(LitVal(s[at]), at + 1)
      [] OTHER -> ParseError

\* "key": value pairs from s[i] on, up to the closing brace
ParseMembers(s, i, members) ==
    IF At(s, i) # "\"" THEN ParseError
    ELSE LET key == ParseString(s, i)
             colon == SkipSpace(s, key.i)
             value == ParseValue(s, colon + 1)
             next == SkipSpace(s, value.i) IN
         IF ~key.ok \/ At(s, colon) # ":" THEN ParseError
         ELSE IF ~value.ok THEN ParseError
         ELSE IF At(s, next) = "}"
         THEN Parsed(ObjVal(Put(members, key.v.s, value.v)), next + 1)
         ELSE IF At(s, next) = ","
         THEN ParseMembers(s, SkipSpace(s, next + 1),
                           Put(members, key.v.s, value.v))
         ELSE ParseError

\* list items from s[i] on, up to the closing bracket
ParseItems(s, i, items) ==
    LET value == ParseValue(s, i)
        next == SkipSpace(s, value.i) IN
    IF ~value.ok THEN ParseError
    ELSE IF At(s, next) = "]"
    THEN Parsed(ArrVal(Append(items, value.v)), next + 1)
    ELSE IF At(s, next) = ","
    THEN ParseItems(s, next + 1, Append(items, value.v))
    ELSE ParseError

\* json.loads: one value and nothing but whitespace after it
Loads(s) ==
    LET r == ParseValue(s, 1) IN
    IF r.ok /\ SkipSpace(s, r.i) > Len(s) THEN r ELSE ParseError

\* re.sub(r'\s+', ' ', s)
RECURSIVE NormalizeWhitespace(_)
NormalizeWhitespace(s) ==
    IF s = << >> THEN << >>
    ELSE IF IsSpace(Head(s))
    THEN <<" ">> \o NormalizeWhitespace(SubSeq(s, SkipSpace(s, 1), Len(s)))
    ELSE <<Head(s)>> \o NormalizeWhitespace(Tail(s))

\* the "more aggressive repair": every token is ASCII, so the first
\* substitution finds nothing to replace
AggressiveClean(json_str) ==
    RemoveTrailingComma(RemoveTrailingComma(NormalizeWhitespace(json_str), "}"),
                        "]")

\* the fields _manual_json_extraction has a pattern for
ManualPatterns ==
    {"case_number", "filing_date", "case_type", "court", "plaintiff",
     "defendant", "property_address", "legal_description",
     "original_loan_amount", "deed_of_trust_number", "sale_date",
     "sale_time", "sale_location", "lender_name"}

\* the other keys of its result, which stay None
ManualNone ==
    {"trustee", "parcel_number", "lot_block_subdivision", "unpaid_balance",
     "total_debt", "deed_of_trust_date", "deed_of_trust_recording_date",
     "deed_of_trust_volume_page", "deed_of_trust_instrument_number"}

\* re.search(r'"field":\s*"([^"]*)"', text): group 1 of the first match from
\* index i on, as a parse result
RECURSIVE SearchField(_, _, _)
SearchField(text, field, i) ==
    IF i + 4 > Len(text) THEN ParseError
    ELSE LET open == SkipSpace(text, i + 4)
             close == Find(text, "\"", open + 1) IN
         IF /\ text[i] = "\"" /\ text[i + 1] = field /\ text[i + 2] = "\""
            /\ text[i + 3] = ":" /\ At(text, open) = "\"" /\ close # 0
         THEN Parsed(StrVal(SubSeq(text, open + 1, close - 1)), close + 1)
         ELSE SearchField(text, field, i + 1)

\* value = match.group(1).strip(); counted if value and value.lower() != 'null'
ManualValue(text, field) ==
    LET match == SearchField(text, field, 1)
        value == Strip(match.v.s) IN
    IF match.ok /\ value # << >> /\ value \notin {<<"null">>, <<"NULL">>}
    THEN StrVal(value) ELSE None

\* re.findall(r'"([^"]*)"', borrower_content), stripped, the empty ones left out
RECURSIVE QuotedStrings(_, _)
QuotedStrings(s, i) ==
    LET open == Find(s, "\"", i)
        close == Find(s, "\"", open + 1) IN
    IF open = 0 \/ close = 0 THEN << >>
    ELSE (IF Strip(SubSeq(s, open + 1, close - 1)) # << >>
          THEN <<StrVal(Strip(SubSeq(s, open + 1, close - 1)))>> ELSE << >>)
         \o QuotedStrings(s, close + 1)

\* re.search(r'"borrower_names":\s*\[(.*?)\]', text): whether it matches and
\* what re.findall gives on group 1
RECURSIVE SearchBorrowers(_, _)
SearchBorrowers(text, i) ==
    IF i + 4 > Len(text) THEN [ok |-> FALSE, found |-> FALSE, names |-> << >>]
    ELSE LET open == SkipSpace(text, i + 4)
             close == Find(text, "]", open + 1)
             content == SubSeq(text, open + 1, close - 1) IN
         IF /\ text[i] = "\"" /\ text[i + 1] = "borrower_names"
            /\ text[i + 2] = "\"" /\ text[i + 3] = ":"
            /\ At(text, open) = "[" /\ close # 0
         THEN [ok |-> TRUE,
               found |-> Find(content, "\"", Find(content, "\"", 1) + 1) # 0
                         /\ Find(content, "\"", 1) # 0,
               names |-> QuotedStrings(content, 1)]
         ELSE SearchBorrowers(text, i + 1)

manual_json_extraction(response_text) ==
    LET borrowers == SearchBorrowers(response_text, 1)
        extracted_count ==
            Cardinality({f \in ManualPatterns :
                            ManualValue(response_text, f) # None})
            + (IF borrowers.ok /\ borrowers.found THEN 1 ELSE 0)
        result ==
            [k \in {<<f>> : f \in ManualPatterns \cup ManualNone
                              \cup {"borrower_names", "attorney_info",
                                    "ai_confidence"}} |->
                CASE k[1] \in ManualPatterns -> ManualValue(response_text, k[1])
                  [] k[1] = "borrower_names" ->
                        ArrVal(IF borrowers.ok /\ borrowers.found
                               THEN borrowers.names ELSE << >>)
                  [] k[1] = "attorney_info" -> ObjVal(<< >>)
                  [] k[1] = "ai_confidence" -> StrVal(<<"LOW">>)
                  [] OTHER -> None]
    IN  IF extracted_count >= 3 THEN Parsed(ObjVal(result), 0) ELSE ParseError

\* One pass of the loop over json_attempts: the dict the attempt returns,
\* if it returns one.
Attempt(json_str, attempt_num) ==
    LET parsed == Loads(Repair(json_str))
        cleaned == Loads(AggressiveClean(Repair(json_str))) IN
    IF parsed.ok
    THEN (IF parsed.v.t = "obj" THEN parsed ELSE ParseError)
    ELSE IF attempt_num = 1 /\ cleaned.ok /\ cleaned.v.t = "obj" THEN cleaned
    ELSE ParseError

RECURSIVE Attempts(_, _)
Attempts(json_attempts, attempt_num) ==
    IF attempt_num > Len(json_attempts) THEN ParseError
    ELSE IF Attempt(json_attempts[attempt_num], attempt_num).ok
    THEN Attempt(json_attempts[attempt_num], attempt_num)
    ELSE Attempts(json_attempts, attempt_num + 1)

extract_json_from_response_manual_first(raw_response) ==
    LET response_text == StripFence(Strip(raw_response))
        parsed == Attempts(Candidates(response_text), 1)
        manual_json == manual_json_extraction(response_text) IN
    IF raw_response = << >> THEN None
    ELSE IF manual_json.ok THEN manual_json.v
    ELSE IF parsed.ok THEN parsed.v
    ELSE None

\* The returned dict, or None.
extract_json_from_response(raw_response) ==
    LET response_text == StripFence(Strip(raw_response))
        parsed == Attempts(Candidates(response_text), 1)
        manual_json == manual_json_extraction(response_text) IN
    IF raw_response = << >> THEN None
    ELSE IF parsed.ok THEN parsed.v
    ELSE IF manual_json.ok THEN manual_json.v
    ELSE None

\* The objects a response renders: a list of key/value pairs each, a nested
\* object being such a list again.
Pairs(members) == Value("pairs", << >>, members)

JsonObjects ==
    << <<<<"case_number", StrVal(<<"12345">>)>>>>,
       <<<<"sale_time", StrVal(<<"10", ":", "00", " ", "AM">>)>>>>,
       <<<<"defendant", StrVal(<<"O", "'", "Brien">>)>>>>,
       <<<<"attorney_info", Pairs(<<<<"name", StrVal(<<"Smith">>)>>>>)>>>>,
       <<<<"case_number", StrVal(<<"12345">>)>>,
         <<"borrower_names", ArrVal(<<StrVal(<<"John", " ", "Smith">>)>>)>>,
         <<"total_debt", LitVal("null")>>>>,
       <<<<"case_number", StrVal(<<"12345">>)>>,
         <<"court", StrVal(<<"County", " ", "Court">>)>>,
         <<"plaintiff", StrVal(<<"Bank">>)>>,
         <<"sale_location", StrVal(<<"Room", ":", " ", "1">>)>>>>,
       <<<<"case_number", StrVal(<<"12345">>)>>,
         <<"sale_location", StrVal(<<"Room", ":", " ", "1">>)>>,
         <<"borrower_names", ArrVal(<<StrVal(<< >>)>>)>>>>,
       <<<<"case_number", StrVal(<<"12345">>)>>,
         <<"sale_location", StrVal(<<"Room", ":", " ", "1">>)>>,
         <<"court", StrVal(<<"null">>)>>,
         <<"plaintiff", StrVal(<< >>)>>>>,
       <<<<"case_number", StrVal(<<"12345">>)>>,
         <<"court", StrVal(<<"County", " ", "Court">>)>>,
         <<"plaintiff", StrVal(<<"Bank">>)>>>>,
       <<<<"borrower_names", StrVal(<<"John", " ", "Smith">>)>>,
         <<"attorney_info", LitVal("null")>>>>,
       <<<<"borrower_names", LitVal("null")>>,
         <<"attorney_info", StrVal(<<"Smith">>)>>,
         <<"total_debt", LitVal("12345")>>>>,
       <<<<"borrower_names", LitVal("10")>>,
         <<"attorney_info", LitVal("10")>>>> >>

Styles == {"compact", "indented", "single quotes", "trailing comma",
           "unquoted keys"}

ValidStyles == {"compact", "indented"}

Wraps == {"alone", "json fence", "fence", "commentary", "marker",
          "draft and marker"}

\* the Python value of an object of JsonObjects
RECURSIVE ToValue(_)
ToValue(v) ==
    CASE v.t = "pairs" ->
            ObjVal([k \in {<<v.m[i][1]>> : i \in DOMAIN v.m} |->
                      ToValue((CHOOSE p \in {v.m[i] : i \in DOMAIN v.m} :
                                  p[1] = k[1])[2])])
      [] v.t = "arr" -> ArrVal([i \in DOMAIN v.m |-> ToValue(v.m[i])])
      [] OTHER -> v

\* the text of a value in a style
RECURSIVE Render(_, _)
RECURSIVE RenderPairs(_, _, _)
RECURSIVE RenderItems(_, _, _)
Render(v, style) ==
    LET quote == IF style = "single quotes" THEN "'" ELSE "\""
        break == IF style = "indented" THEN <<"\n">> ELSE << >> IN
    CASE v.t = "str" -> <<quote>> \o v.s \o <<quote>>
      [] v.t = "lit" -> v.s
      [] v.t = "arr" -> <<"[">> \o RenderItems(v.m, style, 1) \o <<"]">>
      [] v.t = "pairs" ->
            <<"{">> \o break \o RenderPairs(v.m, style, 1)
            \o (IF style = "trailing comma" THEN <<",">> ELSE << >>)
            \o break \o <<"}">>

RenderPairs(members, style, i) ==
    LET quote == IF style = "single quotes" THEN <<"'">>
                 ELSE IF style = "unquoted keys" THEN << >>
                 ELSE <<"\"">>
        separator == IF style = "indented" THEN <<",", "\n", " ", " ">>
                     ELSE <<",", " ">> IN
    IF i > Len(members) THEN << >>
    ELSE (IF i > 1 THEN separator ELSE << >>)
         \o quote \o <<members[i][1]>> \o quote \o <<":", " ">>
         \o Render(members[i][2], style)
         \o RenderPairs(members, style, i + 1)

RenderItems(items, style, i) ==
    IF i > Len(items) THEN << >>
    ELSE (IF i > 1 THEN <<",", " ">> ELSE << >>)
         \o Render(items[i], style) \o RenderItems(items, style, i + 1)

\* what the service puts around the object
Wrap(wrap, body) ==
    CASE wrap = "alone" -> body
      [] wrap = "json fence" ->
            <<"<fence>", "json", "\n">> \o body \o <<"\n", "<fence>">>
      [] wrap = "fence" -> <<"<fence>", "\n">> \o body \o <<"\n", "<fence>">>
      [] wrap = "commentary" ->
            <<"Here", " ", "is", " ", "the", " ", "record", ":", "\n">> \o body
      [] wrap = "marker" -> <<"JSON", ":", " ">> \o body
      [] wrap = "draft and marker" ->
            <<"{", "draft", "}", "\n", "JSON", ":", " ">> \o body

Intended == ToValue(Pairs(JsonObjects[response_kind.object]))

InitJson ==
    /\ pdf_text = [f \in PdfFiles |-> CHOOSE t \in PdfTexts : t.blank]
    /\ PdfIdle
    /\ ScrapeIdle
    /\ KeyIdle
    /\ ExtractIdle
    /\ FallbackIdle
    /\ ApiIdle
    /\ UploadIdle
    /\ response_kind \in [object : DOMAIN JsonObjects, style : Styles,
                          wrap : Wraps]
    /\ response = Wrap(response_kind.wrap,
                       Render(Pairs(JsonObjects[response_kind.object]),
                              response_kind.style))
    /\ json_done = FALSE
    /\ json_result = NoValue
    /\ parsed_record = NoRecord

extract_json ==
    /\ ~json_done
    /\ json_done' = TRUE
    /\ json_result' = extract_json_from_response(response)
    /\ UNCHANGED <<response, response_kind, parsed_record>>

\* dict.get(key, default)
DictGet(d, key, default) ==
    IF <<key>> \in DOMAIN d.m THEN d.m[<<key>>] ELSE default

\* bool(value)
Truthy(v) ==
    CASE v.t = "lit" -> v.s[1] \notin {"null", "false", "0"}
      [] v.t = "str" -> v.s # << >>
      [] OTHER -> v.m # << >>

\* ForeClosureData.__post_init__ on one of the two fields
PostInit(v, empty) == IF v = None THEN empty ELSE v

\* parse_pdf builds ForeClosureData from the dict; create_parsed_record
\* copies the fields of asdict(foreclosure_data) and, for truthy
\* borrower_names, takes len(borrowers) and borrowers[0], which raises on
\* a number or a boolean. save_parsed_pdf_data catches the exception and
\* no record is made.
create_parsed_record_of(ai_response) ==
    LET borrower_names ==
            PostInit(DictGet(ai_response, "borrower_names", ArrVal(<< >>)),
                     ArrVal(<< >>))
        attorney_info ==
            PostInit(DictGet(ai_response, "attorney_info", ObjVal(<< >>)),
                     ObjVal(<< >>))
        raised == Truthy(borrower_names) /\ borrower_names.t = "lit" IN
    [made |-> ~raised, raised |-> raised,
     borrower_names |-> IF raised THEN NoValue ELSE borrower_names,
     attorney_info |-> IF raised THEN NoValue ELSE attorney_info,
     total_debt |-> IF raised THEN NoValue
                    ELSE DictGet(ai_response, "total_debt", None)]

\* parse_pdf from "Create ForeClosureData object" on, and
\* save_parsed_pdf_data up to create_parsed_record, for a dict that
\* _make_api_request returned (a non-empty one)
build_record ==
    /\ json_done
    /\ json_result # None
    /\ parsed_record = NoRecord
    /\ parsed_record' = create_parsed_record_of(json_result)
    /\ UNCHANGED <<response, response_kind, json_done, json_result>>

NextJson ==
    \/ extract_json /\ UNCHANGED <<pdfVars, scrapeVars, keyVars, extractVars, fallbackVars, apiVars, uploadVars>>
    \/ build_record /\ UNCHANGED <<pdfVars, scrapeVars, keyVars, extractVars, fallbackVars, apiVars, uploadVars>>

SpecJson == InitJson /\ [][NextJson]_vars

----------------------------------------------------------------------------
(* GeminiForeClosureParser._fallback_extraction (SpecFallback)              *)
(*                                                                          *)
(* pdf_text is a sequence of tokens: a word, a number, a blank, a line      *)
(* break or a punctuation mark. The letters AND are a token of their own    *)
(* wherever they occur, inside a word too (SANDRA is S, AND, RA).           *)

\* Lines a modelled text has at most.
MaxLines == 3

\* str.upper() of a token, for re.IGNORECASE
UpperWord(t) ==
    CASE t \in {"Borrower", "borrower"} -> "BORROWER"
      [] t = "Borrowers" -> "BORROWERS"
      [] t \in {"Property", "property"} -> "PROPERTY"
      [] t = "Address" -> "ADDRESS"
      [] t = "Amount" -> "AMOUNT"
      [] OTHER -> t

\* len() of a string of tokens
RECURSIVE CharLen(_)
CharLen(s) == IF s = << >> THEN 0 ELSE Len(Head(s)) + CharLen(Tail(s))

\* [:\s]
IsSeparator(t) == t \in {":", " ", "\n"}

\* the first index from i on that holds no separator
RECURSIVE SkipSeparators(_, _)
SkipSeparators(s, i) ==
    IF i <= Len(s) /\ IsSeparator(s[i]) THEN SkipSeparators(s, i + 1) ELSE i

\* the tokens from index i up to the end of its line: [^\n]+
RestOfLine(s, i) ==
    LET end == Find(s, "\n", i) IN
    IF i > Len(s) THEN << >>
    ELSE IF end = 0 THEN SubSeq(s, i, Len(s))
    ELSE SubSeq(s, i, end - 1)

\* re.search(keyword + r'[:\s]+([^\n]+)', text): group 1 of the leftmost
\* match from index i on, where keyword is one of the given sequences of
\* upper-case words; << >> when nothing matches. A modelled text does not
\* end in separators, so the separators are followed by the group.
RECURSIVE SearchLabel(_, _, _)
SearchLabel(text, keywords, i) ==
    IF i > Len(text) THEN << >>
    ELSE LET hits == {k \in keywords :
                        /\ i + Len(k) <= Len(text)
                        /\ \A j \in 1..Len(k) : UpperWord(text[i + j - 1]) = k[j]
                        /\ IsSeparator(text[i + Len(k)])}
             after == i + Len(CHOOSE k \in hits : TRUE)
             start == SkipSeparators(text, after) IN
         IF hits # {} /\ RestOfLine(text, start) # << >>
         THEN RestOfLine(text, start)
         ELSE SearchLabel(text, keywords, i + 1)

\* the tokens that hold STREET, ST, DRIVE, DR, ..., PL, TRAIL or TRL in
\* either case
StreetWords == {"St", "Plano", "Address", "ADDRESS"}

\* \d+ at the start of a token, \d{5} at its end
IsNumber(t) == t \in {"1", "100", "75074", "500", "2,000", "9,000"}
IsZip(t) == t = "75074"

\* (?:\n[^\n]*(?:TX|TEXAS)[^\n]*\d{5})? : the part of the line after index
\* i that runs to its last five-digit number, when TX comes before it
NextLineToZip(text, i) ==
    LET line == RestOfLine(text, i + 1)
        zips == {j \in 1..Len(line) :
                    IsZip(line[j]) /\ \E k \in 1..(j - 1) : line[k] = "TX"} IN
    IF At(text, i) # "\n" \/ zips = {} THEN << >>
    ELSE <<"\n">> \o SubSeq(line, 1, CHOOSE j \in zips : \A k \in zips : k <= j)

\* the third address pattern: from a number to the end of the line, when a
\* street word follows the number on the line, and on into the next line
\* when that holds TX and a zip code
RECURSIVE SearchStreet(_, _)
SearchStreet(text, i) ==
    IF i > Len(text) THEN << >>
    ELSE IF /\ IsNumber(text[i])
            /\ \E j \in 2..Len(RestOfLine(text, i)) :
                  RestOfLine(text, i)[j] \in StreetWords
    THEN RestOfLine(text, i)
         \o NextLineToZip(text, i + Len(RestOfLine(text, i)))
    ELSE SearchStreet(text, i + 1)

\* address_patterns, in order: the first whose stripped group is longer
\* than 10 characters gives property_address
FallbackAddress(text) ==
    LET candidates ==
            <<Strip(SearchLabel(text, {<<"PROPERTY", " ", "ADDRESS">>}, 1)),
              Strip(SearchLabel(text, {<<"PROPERTY">>}, 1)),
              Strip(SearchStreet(text, 1))>>
        accepted == {n \in 1..3 : CharLen(candidates[n]) > 10} IN
    IF accepted = {} THEN << >>
    ELSE candidates[CHOOSE n \in accepted : \A m \in accepted : n <= m]

\* name_patterns: BORROWER[S]?, then GRANTOR[S]?, then DEBTOR[S]?; the
\* first whose stripped group is longer than 3 characters gives defendant
FallbackNames(text) ==
    LET candidates ==
            <<Strip(SearchLabel(text, {<<"BORROWER">>, <<"BORROWERS">>}, 1)),
              Strip(SearchLabel(text, {<<"GRANTOR">>, <<"GRANTORS">>}, 1)),
              Strip(SearchLabel(text, {<<"DEBTOR">>, <<"DEBTORS">>}, 1))>>
        accepted == {n \in 1..3 : CharLen(candidates[n]) > 3} IN
    IF accepted = {} THEN << >>
    ELSE candidates[CHOOSE n \in accepted : \A m \in accepted : n <= m]

\* names.split("AND") with every part stripped
RECURSIVE SplitAND(_)
SplitAND(names) ==
    LET cut == Find(names, "AND", 1) IN
    IF cut = 0 THEN <<Strip(names)>>
    ELSE <<Strip(SubSeq(names, 1, cut - 1))>>
         \o SplitAND(SubSeq(names, cut + 1, Len(names)))

\* float() of a number token
AmountValue(t) ==
    CASE t = "500" -> 500
      [] t = "2,000" -> 2000
      [] t = "9,000" -> 9000
      [] OTHER -> 0

\* re.findall(r'\$[\d,]+\.?\d*', text) from index i on, those over 1000
RECURSIVE DollarAmounts(_, _)
DollarAmounts(text, i) ==
    IF i >= Len(text) THEN << >>
    ELSE IF text[i] = "$" /\ AmountValue(text[i + 1]) > 0
    THEN (IF AmountValue(text[i + 1]) > 1000 THEN <<<<"$", text[i + 1]>>>>
          ELSE << >>) \o DollarAmounts(text, i + 2)
    ELSE DollarAmounts(text, i + 1)

\* re.findall(r'(?:AMOUNT|SUM|DEBT)[:\s]+\$?([\d,]+\.?\d*)', text) from
\* index i on, those over 1000
RECURSIVE LabelledAmounts(_, _)
LabelledAmounts(text, i) ==
    IF i >= Len(text) THEN << >>
    ELSE LET start == SkipSeparators(text, i + 1)
             number == IF At(text, start) = "$" THEN start + 1 ELSE start IN
         IF /\ UpperWord(text[i]) \in {"AMOUNT", "SUM", "DEBT"}
            /\ start > i + 1
            /\ AmountValue(At(text, number)) > 0
         THEN (IF AmountValue(text[number]) > 1000 THEN <<<<text[number]>>>>
               ELSE << >>) \o LabelledAmounts(text, number + 1)
         ELSE LabelledAmounts(text, i + 1)

\* amounts: the $ amounts over 1000 first, then the labelled ones
FallbackAmounts(text) == DollarAmounts(text, 1) \o LabelledAmounts(text, 1)

\* The date tokens of the modelled texts: M/D/YYYY, YYYY-M-D, and the
\* words of a written date.
SlashDates == {"3/5/2024", "12/1/2021"}
IsoDates == {"2023-01-15"}
Months == {"January", "JANUARY"}
Days == {"2"}
Years == {"2020"}

\* re.findall of one of the first two date patterns: the tokens of the
\* format, in the order of the text
RECURSIVE TokenDates(_, _, _)
TokenDates(text, format, i) ==
    IF i > Len(text) THEN << >>
    ELSE (IF text[i] \in format THEN <<<<text[i]>>>> ELSE << >>)
         \o TokenDates(text, format, i + 1)

\* re.findall(r'((?:JANUARY|...|DECEMBER)\s+\d{1,2},?\s+\d{4})', text,
\* re.IGNORECASE) from index i on
RECURSIVE WrittenDates(_, _)
WrittenDates(text, i) ==
    IF i > Len(text) THEN << >>
    ELSE LET day == SkipSpace(text, i + 1)
             comma == IF At(text, day + 1) = "," THEN day + 2 ELSE day + 1
             year == SkipSpace(text, comma) IN
         IF /\ text[i] \in Months
            /\ day > i + 1
            /\ At(text, day) \in Days
            /\ year > comma
            /\ At(text, year) \in Years
         THEN <<SubSeq(text, i, year)>> \o WrittenDates(text, year + 1)
         ELSE WrittenDates(text, i + 1)

\* dates_found: the matches of the three date_patterns, pattern by pattern
FallbackDates(text) ==
    TokenDates(text, SlashDates, 1) \o TokenDates(text, IsoDates, 1)
        \o WrittenDates(text, 1)

\* f"${amounts[0]}" if not amounts[0].startswith('$') else amounts[0]
WithDollar(amount) == IF Head(amount) = "$" THEN amount ELSE <<"$">> \o amount

fallback_record(text) ==
    LET names == FallbackNames(text)
        amounts == FallbackAmounts(text)
        dates_found == FallbackDates(text)
        data == [returned |-> TRUE,
                 property_address |-> FallbackAddress(text),
                 defendant |-> names,
                 borrower_names |->
                     IF names = << >> THEN << >>
                     ELSE SelectSeq(SplitAND(names), LAMBDA n : n # << >>),
                 total_debt |-> IF amounts = << >> THEN << >>
                                ELSE WithDollar(amounts[1]),
                 deed_of_trust_date |-> IF dates_found = << >> THEN << >>
                                        ELSE dates_found[1],
                 ai_confidence |-> "LOW"] IN
    IF data.property_address # << >> \/ data.defendant # << >>
       \/ data.total_debt # << >>
    THEN data
    ELSE NoFallback

\* The lines texts are made of, each with the names and the address it
\* states (<< >> when it states none).
TextLine(tokens, names, address) ==
    [tokens |-> tokens, names |-> names, address |-> address]

JohnAndJane == <<"John", " ", "Smith", " ", "AND", " ", "Jane", " ", "Smith">>
ElmStreet == <<"100", " ", "Elm", " ", "St", ",", " ", "Plano", ",", " ", "TX",
               " ", "75074">>

TextLines ==
    {TextLine(<<"BORROWER", ":", " ">> \o JohnAndJane,
              <<<<"John", " ", "Smith">>, <<"Jane", " ", "Smith">>>>, << >>),
     TextLine(<<"Borrowers", ":", " ", "S", "AND", "RA", " ", "SMITH", " ",
                "AND", " ", "JOHN", " ", "SMITH">>,
              <<<<"S", "AND", "RA", " ", "SMITH">>, <<"JOHN", " ", "SMITH">>>>,
              << >>),
     TextLine(<<"Property", " ", "Address", ":", " ">> \o ElmStreet,
              << >>, ElmStreet),
     TextLine(<<"PROPERTY", " ", "ADDRESS", ":", " ", "1", " ", "Elm", " ", "St">>,
              << >>, <<"1", " ", "Elm", " ", "St">>),
     TextLine(<<"The", " ", "borrower", " ", "defaulted", ".">>, << >>, << >>),
     TextLine(<< >>, << >>, << >>),
     TextLine(<<"BORROWER", ":", " ">> \o JohnAndJane
              \o <<" ", "...", " ", "Property", " ", "Address", ":", " ">>
              \o ElmStreet \o <<" ", "...">>,
              <<<<"John", " ", "Smith">>, <<"Jane", " ", "Smith">>>>, ElmStreet),
     TextLine(<<"Amount", ":", " ", "$", "2,000", " ", "and", " ", "$", "9,000">>,
              << >>, << >>),
     TextLine(<<"at", " ">> \o ElmStreet, << >>, << >>),
     TextLine(<<"On", " ", "3/5/2024", " ", "and", " ", "2023-01-15", " ",
                "and", " ", "12/1/2021">>, << >>, << >>),
     TextLine(<<"January", " ", "2", ",", " ", "2020">>, << >>, << >>)}

\* "\n".join(lines)
RECURSIVE JoinTextLines(_)
JoinTextLines(lines) ==
    IF lines = << >> THEN << >>
    ELSE IF Len(lines) = 1 THEN lines[1].tokens
    ELSE lines[1].tokens \o <<"\n">> \o JoinTextLines(Tail(lines))

InitFallback ==
    /\ pdf_text = [f \in PdfFiles |-> CHOOSE t \in PdfTexts : t.blank]
    /\ PdfIdle
    /\ ScrapeIdle
    /\ KeyIdle
    /\ ExtractIdle
    /\ JsonIdle
    /\ ApiIdle
    /\ UploadIdle
    /\ fb_lines \in UNION {[1..n -> TextLines] : n \in 1..MaxLines}
    /\ fb_lines[Len(fb_lines)].tokens # << >>
    /\ fb_done = FALSE
    /\ fb_result = NoFallback

fallback_extract ==
    /\ ~fb_done
    /\ fb_done' = TRUE
    /\ fb_result' = fallback_record(JoinTextLines(fb_lines))
    /\ UNCHANGED fb_lines

NextFallback ==
    fallback_extract
    /\ UNCHANGED <<pdfVars, scrapeVars, keyVars, extractVars, jsonVars, apiVars, uploadVars>>

SpecFallback == InitFallback /\ [][NextFallback]_vars

----------------------------------------------------------------------------
(* GeminiForeClosureParser._make_api_request, attempt by attempt (SpecApi) *)

\* Requests the parser has made before the modelled invocation, at most.
MaxEarlierRequests == 1

max_length == 45000

\* len("\n[TRUNCATED DUE TO LENGTH]")
truncation_note_len == 26

\* pdf_text[:max_length] + "\n[TRUNCATED DUE TO LENGTH]" when it is too long
Truncated_never(length) == length

Truncated(length) ==
    IF length > max_length THEN max_length + truncation_note_len ELSE length

\* range(n) of a for loop
range_inclusive(n) == 0..n

range(n) == 0..(n - 1)

\* Invocations of _make_api_request in one run of process_all_pdfs, at most.
MaxDocuments == 2

\* time.sleep(2)  # Rate limiting
rate_limit_delay == 2

\* time.sleep(3 * (attempt + 1))  # Increasing delay
backoff_step == 3

\* the wait after the failed attempt of loop index attempt
Backoff_fixed(failed) == backoff_step

Backoff(failed) == backoff_step * (failed + 1)

\* time.sleep(1) at the end of each pass of the loop of process_all_pdfs
document_delay == 1

\* The entries of api_log: a call of generate_content, or a wait of s seconds.
Call == [e |-> "call", s |-> 0]
Sleep(e, s) == [e |-> e, s |-> s]

\* the log from its last call on
RECURSIVE SinceLastCall(_)
SinceLastCall(log) ==
    IF \E i \in 2..Len(log) : log[i] = Call THEN SinceLastCall(Tail(log))
    ELSE log

\* How one attempt can end: generate_content raises; or it returns and the
\* response is empty, blocked, without parts, without text, not recoverable
\* as JSON, recovered as an empty dict; or a non-empty dict is recovered.
ApiFailures ==
    {"raises", "no response", "blocked", "no parts", "empty text",
     "no json", "empty dict"}

ApiOutcomes == ApiFailures \cup {"object"}

InitApi ==
    /\ pdf_text = [f \in PdfFiles |-> CHOOSE t \in PdfTexts : t.blank]
    /\ PdfIdle
    /\ ScrapeIdle
    /\ KeyIdle
    /\ ExtractIdle
    /\ JsonIdle
    /\ FallbackIdle
    /\ UploadIdle
    /\ text_len \in {max_length - 1, max_length, max_length + 1}
    /\ sent_len = 0
    /\ api_pc = "idle"
    /\ attempt = 0
    /\ api_requests \in 0..MaxEarlierRequests
    /\ successful_requests = 0
    /\ failed_requests = 0
    /\ api_calls = 0
    /\ api_log = << >>
    /\ api_last = "none"
    /\ api_return = "none"

\* the lines before the loop
api_begin ==
    /\ api_pc = "idle"
    /\ api_pc' = "loop"
    /\ sent_len' = Truncated(text_len)
    /\ UNCHANGED <<text_len, attempt, api_requests, successful_requests,
                   failed_requests, api_calls, api_log, api_last,
                   api_return>>

\* one pass of the loop body, its except clause included
api_attempt ==
    /\ api_pc = "loop"
    /\ attempt \in range(max_retries)
    /\ \E outcome \in ApiOutcomes :
          /\ api_last' = outcome
          /\ api_calls' = api_calls + 1
          /\ api_requests' = IF outcome = "raises" THEN api_requests
                             ELSE api_requests + 1
          /\ api_log' =
                api_log
                \o (IF api_requests > 0
                    THEN <<Sleep("rate limit", rate_limit_delay)>> ELSE << >>)
                \o <<Call>>
                \o (IF outcome \in ApiFailures /\ attempt < max_retries - 1
                    THEN <<Sleep("backoff", Backoff(attempt))>>
                    ELSE << >>)
          /\ IF outcome = "object"
             THEN /\ successful_requests' = successful_requests + 1
                  /\ api_pc' = "returned"
                  /\ api_return' = "object"
                  /\ UNCHANGED attempt
             ELSE /\ attempt' = attempt + 1
                  /\ UNCHANGED <<successful_requests, api_pc, api_return>>
    /\ UNCHANGED <<text_len, sent_len, failed_requests>>

\* the lines after the loop
api_give_up ==
    /\ api_pc = "loop"
    /\ attempt \notin range(max_retries)
    /\ failed_requests' = failed_requests + 1
    /\ api_pc' = "returned"
    /\ api_return' = "None"
    /\ UNCHANGED <<text_len, sent_len, attempt, api_requests,
                   successful_requests, api_calls, api_log, api_last>>

\* if not ai_response: ai_response = self._fallback_extraction(...)
after_request_no_fallback(ai_response) == "record"

after_request(ai_response) ==
    IF ai_response = "None" THEN "fallback" ELSE "record"

\* parse_pdf after _make_api_request has returned: _fallback_extraction is
\* called when the request gave None (or an empty dict, which it does not
\* return), else the record is built from the object.
parse_pdf_after_request ==
    /\ api_pc = "returned"
    /\ api_pc' = after_request(api_return)
    /\ UNCHANGED <<text_len, sent_len, attempt, api_requests,
                   successful_requests, failed_requests, api_calls, api_log,
                   api_last, api_return>>

\* process_all_pdfs goes on to the next document: time.sleep(1), then
\* parse_pdf calls _make_api_request with the text of that document.
next_document ==
    /\ api_pc \in {"fallback", "record"}
    /\ successful_requests + failed_requests < MaxDocuments
    /\ api_pc' = "idle"
    /\ attempt' = 0
    /\ api_calls' = 0
    /\ api_last' = "none"
    /\ api_return' = "none"
    /\ api_log' = SinceLastCall(api_log)
                    \o <<Sleep("next document", document_delay)>>
    /\ UNCHANGED <<text_len, sent_len, api_requests, successful_requests,
                   failed_requests>>

NextApi ==
    \/ api_begin /\ UNCHANGED <<pdfVars, scrapeVars, keyVars, extractVars, jsonVars, fallbackVars, uploadVars>>
    \/ api_attempt /\ UNCHANGED <<pdfVars, scrapeVars, keyVars, extractVars, jsonVars, fallbackVars, uploadVars>>
    \/ api_give_up /\ UNCHANGED <<pdfVars, scrapeVars, keyVars, extractVars, jsonVars, fallbackVars, uploadVars>>
    \/ parse_pdf_after_request /\ UNCHANGED <<pdfVars, scrapeVars, keyVars, extractVars, jsonVars, fallbackVars, uploadVars>>
    \/ next_document /\ UNCHANGED <<pdfVars, scrapeVars, keyVars, extractVars, jsonVars, fallbackVars, uploadVars>>

SpecApi == InitApi /\ [][NextApi]_vars

\* Each call of generate_content returns or raises, and the code between
\* the calls runs on: every enabled step is taken.
SpecApiFair == SpecApi /\ WF_vars(NextApi)

----------------------------------------------------------------------------
(* upload_to_google_sheets.py : ForeClosureGoogleSheetsProcessor (SpecUpload) *)

\* Records combine_records returns, at most.
MaxRecords == 3

\* process_all_records calls of one behaviour, at most.
MaxUploadRuns == 2

\* Values worksheet.col_values(1) holds, at most.
MaxColumnA == 1

\* if (i + 1) % 10 == 0: self.save_checkpoints()
checkpoint_every == 10

\* The detail_id of a record; "" stands for a record without one.
DetailIds == {"101", "102"}

\* The lists modelled: any detail_ids, the same one several times too; a
\* record without detail_id, if there is one, is the first of the list.
RecordLists ==
    {l \in UNION {[1..n -> DetailIds \cup {""}] : n \in 0..MaxRecords} :
        \A i \in 2..Len(l) : l[i] # ""}

\* GoogleSheetsUploader.load_checkpoints: the set in the file; set() when
\* the file is missing or cannot be read or parsed.
uploader_load_checkpoints(file, read_ok) ==
    IF read_ok THEN FileKeys(file) ELSE {}

\* get_new_records: the records with a detail_id that is not processed
get_new_records(all_records, processed) ==
    SelectSeq(all_records, LAMBDA id : id # "" /\ id \notin processed)

\* find_next_empty_row: len(col_a_values) + 1, or 2 when the read raises
find_next_empty_row(read_ok) == IF read_ok THEN col_a_values + 1 ELSE 2

\* upload_record after the attempt to write: the detail_id is added to
\* processed_records only when worksheet.update returned
MarkProcessed_always(processed, detail_id, written) == processed \cup {detail_id}

MarkProcessed(processed, detail_id, written) ==
    IF written THEN processed \cup {detail_id} ELSE processed

\* worksheet.update(range_name, [row_data]) on one row
UpdateRow(rows, row_number, detail_id) ==
    {c \in rows : c.row # row_number}
        \cup {[row |-> row_number, detail_id |-> detail_id]}

InitUpload ==
    /\ pdf_text = [f \in PdfFiles |-> CHOOSE t \in PdfTexts : t.blank]
    /\ PdfIdle
    /\ ScrapeIdle
    /\ KeyIdle
    /\ ExtractIdle
    /\ JsonIdle
    /\ FallbackIdle
    /\ ApiIdle
    /\ combined_records \in RecordLists
    /\ col_a_values \in 0..MaxColumnA
    /\ sheet = {}
    /\ upload_checkpoint_file = NoFile
    /\ processed_records = {}
    /\ up = "down"
    /\ new_records = << >>
    /\ batch_i = 0
    /\ start_row = 0
    /\ upload_runs = 0
    /\ last_upload = NoUpload
    /\ last_save = "none"
    /\ failed_writes = {}
    /\ written_ids = {}
    /\ failed_before = {}

\* ForeClosureGoogleSheetsProcessor.__init__ -> GoogleSheetsUploader.__init__:
\* processed_records = load_checkpoints().
StartUploader ==
    /\ up = "down"
    /\ \E read_ok \in BOOLEAN :
          processed_records' =
              uploader_load_checkpoints(upload_checkpoint_file, read_ok)
    /\ up' = "idle"
    /\ last_upload' = NoUpload
    /\ last_save' = "none"
    /\ UNCHANGED <<combined_records, col_a_values, sheet,
                   upload_checkpoint_file, new_records, batch_i, start_row,
                   upload_runs, failed_writes, written_ids, failed_before>>

\* process_all_records up to the loop of upload_batch: the new records are
\* selected; with none of them it returns, else upload_batch takes its
\* start row.
process_all_records ==
    /\ up = "idle"
    /\ upload_runs < MaxUploadRuns
    /\ upload_runs' = upload_runs + 1
    /\ new_records' = get_new_records(combined_records, processed_records)
    /\ batch_i' = 0
    /\ \E read_ok \in BOOLEAN :
          start_row' = IF new_records' = << >> THEN start_row
                       ELSE find_next_empty_row(read_ok)
    /\ up' = IF new_records' = << >> THEN "idle" ELSE "uploading"
    /\ failed_before' = failed_writes
    /\ failed_writes' = {}
    /\ last_upload' = NoUpload
    /\ last_save' = "none"
    /\ UNCHANGED <<combined_records, col_a_values, sheet,
                   upload_checkpoint_file, processed_records, written_ids>>

\* One iteration of the loop of upload_batch: upload_record(record,
\* start_row + i), which returns True for a processed detail_id, writes the
\* row and marks the detail_id, or catches the exception of the write and
\* returns False; then save_checkpoints after every 10th record, whose
\* exception nothing in upload_batch catches.
upload_record ==
    /\ up = "uploading"
    /\ batch_i < Len(new_records)
    /\ \E write \in {"ok", "error"}, ck_write \in {"ok", "error", "killed"} :
        LET detail_id  == new_records[batch_i + 1]
            row_number == start_row + batch_i
            already    == detail_id \in processed_records
            written    == ~already /\ write = "ok"
            processed  == MarkProcessed(processed_records, detail_id, written)
            periodic   == (batch_i + 1) % checkpoint_every = 0
            killed     == periodic /\ ck_write = "killed"
        IN  \* an input that is not read in this pass is held at one value
            /\ already => write = "ok"
            /\ ~periodic => ck_write = "ok"
            /\ sheet' = IF written THEN UpdateRow(sheet, row_number, detail_id)
                        ELSE sheet
            /\ processed_records' = IF killed THEN {} ELSE processed
            /\ last_upload' = [detail_id |-> detail_id,
                               write |-> IF already THEN "none" ELSE write,
                               result |-> already \/ write = "ok"]
            /\ failed_writes' = IF already \/ write = "ok" THEN failed_writes
                                ELSE failed_writes \cup {detail_id}
            /\ written_ids' = IF written THEN written_ids \cup {detail_id}
                              ELSE written_ids
            /\ upload_checkpoint_file' =
                  IF periodic
                  THEN WriteKeys(upload_checkpoint_file, processed, ck_write)
                  ELSE upload_checkpoint_file
            /\ last_save' = IF periodic THEN ck_write ELSE "none"
            /\ up' = IF killed THEN "down"
                     ELSE IF periodic /\ ck_write = "error" THEN "idle"
                     ELSE "uploading"
    /\ batch_i' = batch_i + 1
    /\ UNCHANGED <<combined_records, col_a_values, new_records, start_row,
                   upload_runs, failed_before>>

\* upload_batch after its loop: the final save_checkpoints, then it returns.
upload_batch_end ==
    /\ up = "uploading"
    /\ batch_i = Len(new_records)
    /\ \E ck_write \in {"ok", "error", "killed"} :
          /\ upload_checkpoint_file' =
                WriteKeys(upload_checkpoint_file, processed_records, ck_write)
          /\ last_save' = ck_write
          /\ up' = IF ck_write = "killed" THEN "down" ELSE "idle"
          /\ processed_records' =
                IF ck_write = "killed" THEN {} ELSE processed_records
    /\ last_upload' = NoUpload
    /\ UNCHANGED <<combined_records, col_a_values, sheet, new_records,
                   batch_i, start_row, upload_runs, failed_writes,
                   written_ids, failed_before>>

\* The process ends between two records or between two runs (main returns,
\* KeyboardInterrupt in run_continuous_monitoring, a kill): what is in
\* memory is gone, the sheet and the checkpoint file stay.
StopUploader ==
    /\ up \in {"idle", "uploading"}
    /\ up' = "down"
    /\ processed_records' = {}
    /\ last_upload' = NoUpload
    /\ last_save' = "none"
    /\ UNCHANGED <<combined_records, col_a_values, sheet,
                   upload_checkpoint_file, new_records, batch_i, start_row,
                   upload_runs, failed_writes, written_ids, failed_before>>

NextUpload ==
    \/ StartUploader /\ UNCHANGED <<pdfVars, scrapeVars, keyVars, extractVars, jsonVars, fallbackVars, apiVars>>
    \/ process_all_records /\ UNCHANGED <<pdfVars, scrapeVars, keyVars, extractVars, jsonVars, fallbackVars, apiVars>>
    \/ upload_record /\ UNCHANGED <<pdfVars, scrapeVars, keyVars, extractVars, jsonVars, fallbackVars, apiVars>>
    \/ upload_batch_end /\ UNCHANGED <<pdfVars, scrapeVars, keyVars, extractVars, jsonVars, fallbackVars, apiVars>>
    \/ StopUploader /\ UNCHANGED <<pdfVars, scrapeVars, keyVars, extractVars, jsonVars, fallbackVars, apiVars>>

SpecUpload == InitUpload /\ [][NextUpload]_vars

----------------------------------------------------------------------------
(* Properties of the PDF pipeline (SpecPdf) *)

StoredRecords == FileRecords(parsed_data_file)

\* C1: whenever the text of a document is not blank and every call to the
\* generative service failed for it, parse_pdf returns a record, not None.
C1_FallbackAlwaysYieldsRecord ==
    (~last_parse.blank /\ last_parse.ai_failed) => last_parse.ok

\* C2: the record store holds at most one record per detail_id, after any
\* number of runs, also when the checkpoint file was lost or unreadable.
C2_OneRecordPerDetailId ==
    \A i, j \in 1..Len(StoredRecords) :
        i # j => StoredRecords[i].detail_id # StoredRecords[j].detail_id

\* C2 witness: a later run parsed again a document stored by an earlier run
\* (its checkpoint was not read back) and the store holds two records.
C2_Witness ==
    /\ runs >= 2
    /\ done_earlier \cap api_called # {}
    /\ Len(StoredRecords) >= 2

\* C3 as stated: in a later run no generative call is made for a document
\* that an earlier run stored and marked processed.
C3_NoCallForProcessedEarlier ==
    \A f \in done_earlier : f \notin api_called

\* C3 amended: in a later run no generative call is made for a document that
\* an earlier run stored and marked processed and whose name is in the
\* processed set the run started with.
C3_NoCallForProcessedAtRunStart ==
    \A f \in done_earlier \cap run_start_processed : f \notin api_called

\* C3 witness: a second run has ended, it started with a document of the
\* first run in its processed set, and it made calls for other documents.
C3_Witness ==
    /\ runs >= 2
    /\ proc = "idle"
    /\ done_earlier \cap run_start_processed # {}
    /\ api_called # {}

\* C4: no step in which the process is not killed removes a key from the
\* processed set persisted in the checkpoint file.
C4_ProcessedStaysProcessed ==
    [][last_op' # "killed" =>
         FileKeys(checkpoint_file) \subseteq FileKeys(checkpoint_file')]_vars

\* C8: a kill during save_checkpoints leaves on disk the previous set or the
\* new one: load_checkpoints gives no fewer keys after it than before it.
C8_SaveCheckpointsAtomic ==
    [][last_op' = "killed" =>
         FileKeys(checkpoint_file) \subseteq FileKeys(checkpoint_file')]_vars

----------------------------------------------------------------------------
(* Properties of create_checkpoint_key (SpecKey) *)

\* The non-whitespace characters of s in order, each with whether whitespace
\* separates it from the one before.
RECURSIVE Marks(_, _, _)
Marks(s, seen, gap) ==
    IF s = << >> THEN << >>
    ELSE IF Head(s) \in Whitespace THEN Marks(Tail(s), seen, seen)
    ELSE << <<Head(s), gap>> >> \o Marks(Tail(s), TRUE, FALSE)

\* s and t differ only in leading/trailing whitespace, line breaks or runs
\* of spaces
SameUpToWhitespace(s, t) == Marks(s, FALSE, FALSE) = Marks(t, FALSE, FALSE)

C10_KeyCaseInsensitive ==
    keyed => (Upper(snap_a.address) = Upper(snap_b.address) => key_a = key_b)

\* save_parsed_pdf_data has returned True in the step: the record was found
\* in the store, or save_checkpoints returned
ReturnedTrue == last_parse'.ok /\ (last_doc'.already \/ last_op' = "ok")

\* C21: a step of process_single_pdf in which the write of the record store
\* fails leaves the document out of processed_pdfs and out of the checkpoint
\* file, and save_parsed_pdf_data does not return True.
C21_StoreWriteFailureNotMarked ==
    [][last_doc'.store = "error" =>
         /\ Head(unprocessed_pdfs) \notin processed_pdfs'
         /\ Head(unprocessed_pdfs) \notin FileKeys(checkpoint_file')
         /\ ~ReturnedTrue]_vars

\* C22: a step of process_single_pdf in which save_parsed_pdf_data finds the
\* record of the document in the record store leaves the document in
\* processed_pdfs and in the checkpoint file, so that no later run takes it
\* up again.
C22_AlreadyStoredIsMarked ==
    [][last_doc'.already =>
         /\ Head(unprocessed_pdfs) \in processed_pdfs'
         /\ Head(unprocessed_pdfs) \in FileKeys(checkpoint_file')]_vars

----------------------------------------------------------------------------
(* Properties of the listing scraper (SpecScrape) *)

\* C5: a listing is skipped as already processed only if the same listing
\* was processed before.
C5_SkipOnlyProcessedListing == skipped_listings \subseteq processed_listings

\* C6: when a run has been interrupted or has aborted, every checkpoint in
\* processed_checkpoints.json has its row in collin_foreclosures.json.
C6_CheckpointedRowsPersisted ==
    (scr = "down" /\ last_scrape \in {"interrupted", "error", "killed"}) =>
        \A cp \in FileKeys(scrape_checkpoint_file) :
            \E i \in 1..Len(FileRecords(results_file)) :
                create_checkpoint_key(FileRecords(results_file)[i]) = cp

\* C7: a failed write of the checkpoint store does not end the run: the
\* scraper goes on with the next row.
C7_CheckpointFailureDoesNotAbort == last_scrape = "error" => scr = "scraping"

----------------------------------------------------------------------------
(* Properties of extract_pdf_text (SpecExtract) *)

\* C11: extract_pdf_text never lets an exception out, whichever libraries
\* raise, and when it has returned the empty string then pdfplumber, PyPDF2
\* and OCR have all been tried, in this order.
C11_ExtractNeverRaisesEmptyOnlyAfterAll ==
    /\ ex_pc # "raised"
    /\ (ex_pc = "returned" /\ ex_result = << >>)
          => ex_tried = <<"pdfplumber", "PyPDF2", "OCR">>

\* every library raises on the document and the empty string is returned
C11_Witness ==
    /\ ex_pc = "returned"
    /\ ex_result = << >>
    /\ \E i \in DOMAIN ex_doc.pdfplumber : ex_doc.pdfplumber[i].raises
    /\ \E i \in DOMAIN ex_doc.PyPDF2 : ex_doc.PyPDF2[i].raises
    /\ ~ex_doc.convert_ok

\* The characters of a text that are not whitespace, at most: a line break
\* is whitespace, "PAGE i:" holds one blank, and a page text is counted as
\* if it held none.
RECURSIVE NonWhitespace(_)
NonWhitespace(text) ==
    IF text = << >> THEN 0
    ELSE (IF Head(text).by = "newline" THEN 0
          ELSE IF Head(text).by = "page label" THEN Head(text).n - 1
          ELSE Head(text).n) + NonWhitespace(Tail(text))

\* the strategy that returned
ReturnedBy == ex_tried[Len(ex_tried)]

\* C25: a non-empty text returned by extract_pdf_text holds more than 100
\* characters that are not whitespace, whichever strategy returned it.
C25_ReturnedTextAboveHundred ==
    (ex_pc = "returned" /\ ex_result # << >>)
        => NonWhitespace(ex_result) > min_text_chars

\* C25, as the code has it: a non-empty text returned by pdfplumber or
\* PyPDF2 is longer than 100 characters once leading and trailing
\* whitespace is removed, one returned by OCR is longer than 50, page
\* markers and inner whitespace counted.
C25_ReturnedTextAboveItsThreshold ==
    (ex_pc = "returned" /\ ex_result # << >>)
        => TextLen(StripText(ex_result)) >
              (IF ReturnedBy = "OCR" THEN min_ocr_chars ELSE min_text_chars)

\* OCR returns a text of one page of 43 characters: 51 with its marker
C25_Witness ==
    /\ ex_pc = "returned"
    /\ ex_result # << >>
    /\ ReturnedBy = "OCR"
    /\ TextLen(StripText(ex_result)) = 51
    /\ NonWhitespace(ex_result) <= min_text_chars

\* C26: the text extract_pdf_text returns was produced by the strategy that
\* returned it alone: no character of it comes from a strategy tried before.
C26_ReturnedTextOfOneStrategy ==
    ex_pc = "returned" =>
        \A i \in DOMAIN ex_result :
            ex_result[i].by \in {ReturnedBy, "newline", "page label"}

\* What a text-layer strategy gives on the document by itself: it failed
\* (raised), or its own text is near-empty (not above the threshold).
FailedOrNearEmpty(run) ==
    run.raised \/ ~Meaningful(run.text, min_text_chars)

PdfplumberAlone == PdfplumberPages(<< >>, ex_doc.pdfplumber, 1)
PyPDF2Alone == PyPDF2Pages(<< >>, ex_doc.PyPDF2, 1)

\* C27: the strategies are tried in the order pdfplumber, PyPDF2, OCR, none
\* twice; PyPDF2 is tried only when pdfplumber failed or gave near-empty
\* text, OCR only when both did; and extract_pdf_text does not return
\* before OCR unless with a text above the threshold.
C27_OrderedShortCircuit ==
    /\ \E n \in 0..3 : ex_tried = SubSeq(<<"pdfplumber", "PyPDF2", "OCR">>, 1, n)
    /\ Len(ex_tried) >= 2 => FailedOrNearEmpty(PdfplumberAlone)
    /\ Len(ex_tried) >= 3 => FailedOrNearEmpty(PyPDF2Alone)
    /\ (ex_pc = "returned" /\ Len(ex_tried) < 3)
          => Meaningful(ex_result, min_text_chars)
    /\ ex_pc \in {"PyPDF2", "OCR"} => ex_result = << >>

\* OCR returns a text after pdfplumber raised and PyPDF2 gave too little
C27_Witness ==
    /\ ex_pc = "returned"
    /\ ex_tried = <<"pdfplumber", "PyPDF2", "OCR">>
    /\ ex_result # << >>
    /\ PdfplumberAlone.raised
    /\ ~PyPDF2Alone.raised

----------------------------------------------------------------------------
(* Properties of _extract_json_from_response (SpecJson) *)

\* C12: for a response that holds a JSON object that parses as it is (alone,
\* in a code fence, or after commentary), the returned dict is that object,
\* key for key and value for value.
C12_ValidJsonReturnedUnchanged ==
    (json_done /\ response_kind.style \in ValidStyles)
        => json_result = Intended

NearValidStyles == Styles \ ValidStyles

\* C13: for a response whose object is close to valid JSON (single-quote
\* delimiters, a trailing comma, or unquoted keys), the returned dict has
\* the keys and the values of the intended object.
C13_NearValidJsonRecovered ==
    (json_done /\ response_kind.style \in NearValidStyles)
        => json_result = Intended

\* C14: for a json code fence around an object with a trailing comma before
\* the closing brace, the returned dict is the object, every field value
\* intact.
C14_FencedTrailingCommaRecovered ==
    (/\ json_done
     /\ response_kind.wrap = "json fence"
     /\ response_kind.style = "trailing comma")
        => json_result = Intended

\* response_text as the candidates are taken from it
CleanResponse == StripFence(Strip(response))

\* the three tiers, in order: the span from the first "{" to the last "}",
\* that span of what follows the last "JSON:", the whole response; a tier
\* whose span does not exist is left out
AfterMarker(text) ==
    Strip(SubSeq(text, LastMarker(text, Len(text)) + 2, Len(text)))

Tiers(text) ==
    SelectSeq(<<[tier |-> "braces", str |-> Braced(text)],
                [tier |-> "marker",
                 str |-> IF LastMarker(text, Len(text)) # 0
                         THEN Braced(AfterMarker(text)) ELSE << >>],
                [tier |-> "whole", str |-> text]>>,
              LAMBDA c : c.tier = "whole" \/ c.str # << >>)

\* the tiers whose candidate parses to an object
ParsingTiers(text) ==
    {k \in DOMAIN Tiers(text) : Attempt(Tiers(text)[k].str, k).ok}

FirstParsing(text) ==
    CHOOSE k \in ParsingTiers(text) : \A j \in ParsingTiers(text) : k <= j

\* C28: the result of _extract_json_from_response is the object of the
\* first tier that parses to one; the result of manual field extraction
\* (a record or None) is returned only when no tier parses; the result is
\* an object or None.
C28_FirstParsingTierReturned ==
    json_done =>
        /\ json_result = None \/ json_result.t = "obj"
        /\ ParsingTiers(CleanResponse) # {} =>
              json_result =
                Attempt(Tiers(CleanResponse)[FirstParsing(CleanResponse)].str,
                        FirstParsing(CleanResponse)).v
        /\ ParsingTiers(CleanResponse) = {} =>
              json_result = (IF manual_json_extraction(CleanResponse).ok
                             THEN manual_json_extraction(CleanResponse).v
                             ELSE None)

\* the span from the first "{" to the last "}" does not parse and the
\* object after the marker is returned
C28_Witness ==
    /\ json_done
    /\ FirstParsing(CleanResponse) = 2
    /\ Tiers(CleanResponse)[2].tier = "marker"
    /\ json_result = Intended

\* no tier parses and manual field extraction gives the record
C28_WitnessManual ==
    /\ json_done
    /\ ParsingTiers(CleanResponse) = {}
    /\ json_result # None

\* manual field extraction has given the result
ManualReturned ==
    /\ json_done
    /\ ParsingTiers(CleanResponse) = {}
    /\ json_result # None

\* the fields of a record that hold a value: not None, not an empty list,
\* not an empty mapping; ai_confidence is a tag, not a field of the document
RecoveredFields(record) ==
    {k \in DOMAIN record.m :
        /\ k # <<"ai_confidence">>
        /\ record.m[k] \notin {None, ArrVal(<< >>), ObjVal(<< >>)}}

\* C29: a record that manual field extraction returns holds at least 3
\* recovered fields, none of them empty or the word null.
C29_ManualRecordHasThreeFields ==
    ManualReturned =>
        /\ Cardinality(RecoveredFields(json_result)) >= 3
        /\ \A k \in RecoveredFields(json_result) :
              json_result.m[k] \notin {StrVal(<< >>), StrVal(<<"null">>)}

\* a list of strings; a mapping; a string or None
IsListOfStrings(v) ==
    v.t = "arr" /\ \A i \in DOMAIN v.m : v.m[i].t = "str"

IsMapping(v) == v.t = "obj"

IsOptionalString(v) == v = None \/ v.t = "str"

\* C36: in a record made from a generative response, borrower_names is a
\* list of strings, attorney_info is a mapping and total_debt is a string
\* or None, whatever the response gave for them.
C36_RecordFieldsWellTyped ==
    parsed_record.made =>
        /\ IsListOfStrings(parsed_record.borrower_names)
        /\ IsMapping(parsed_record.attorney_info)
        /\ IsOptionalString(parsed_record.total_debt)

----------------------------------------------------------------------------
(* Properties of _fallback_extraction (SpecFallback) *)

NamedLines == {i \in DOMAIN fb_lines : fb_lines[i].names # << >>}
AddressLines == {i \in DOMAIN fb_lines : fb_lines[i].address # << >>}

\* C15: for a text with one BORROWER: <name> AND <name> block and one
\* Property Address: <address> entry, the fallback record has exactly that
\* address as property_address, the individual names as borrower_names and
\* confidence LOW.
C15_FallbackAddressAndBorrowers ==
    (/\ fb_done
     /\ Cardinality(NamedLines) = 1
     /\ Cardinality(AddressLines) = 1)
        => /\ fb_result.returned
           /\ fb_result.property_address
                 = fb_lines[CHOOSE i \in AddressLines : TRUE].address
           /\ fb_result.borrower_names
                 = fb_lines[CHOOSE i \in NamedLines : TRUE].names
           /\ fb_result.ai_confidence = "LOW"

\* the amounts over 1000 that the text holds
MaterialAmounts == FallbackAmounts(JoinTextLines(fb_lines))

\* the number of an amount, with or without its $ sign
AmountOf(amount) == AmountValue(amount[Len(amount)])

\* C30: for a text with several amounts over 1000, total_debt is the
\* largest of them.
C30_LargestAmountIsDebt ==
    (fb_done /\ Len(MaterialAmounts) >= 2)
        => /\ fb_result.total_debt # << >>
           /\ \A i \in DOMAIN MaterialAmounts :
                 AmountOf(MaterialAmounts[i]) <= AmountOf(fb_result.total_debt)

\* the day a date of the modelled texts names, as year, month and day
DateValue(date) ==
    CASE date = <<"3/5/2024">> -> 20240305
      [] date = <<"12/1/2021">> -> 20211201
      [] date = <<"2023-01-15">> -> 20230115
      [] date[Len(date)] = "2020" -> 20200102
      [] OTHER -> 0

\* the dates the text holds, in any of the three formats
DatesInText == FallbackDates(JoinTextLines(fb_lines))

\* C31: for a text with several dates, the date of the fallback record is
\* the earliest of them, whatever the format of each.
C31_EarliestDateReported ==
    (fb_done /\ fb_result.returned /\ Len(DatesInText) >= 2)
        => /\ fb_result.deed_of_trust_date # << >>
           /\ \A i \in DOMAIN DatesInText :
                 DateValue(fb_result.deed_of_trust_date)
                    <= DateValue(DatesInText[i])

----------------------------------------------------------------------------
(* Properties of _make_api_request (SpecApiFair) *)

\* C16: one invocation of _make_api_request calls the service at most
\* max_retries = 3 times, and it ends by returning an object or None.
C16_AtMostThreeCallsThenReturns ==
    /\ [](api_calls <= max_retries)
    /\ <>(api_pc = "returned" /\ api_return \in {"object", "None"})

\* three calls failed and None was returned
C16_Witness ==
    api_pc = "returned" /\ api_return = "None" /\ api_calls = max_retries

\* the seconds waited between the entries i and j of the log
RECURSIVE Waited(_, _, _)
Waited(log, i, j) ==
    IF i >= j THEN 0 ELSE log[i].s + Waited(log, i + 1, j)

\* two calls with no call between them
ConsecutiveCalls(log) ==
    {p \in (DOMAIN log) \X (DOMAIN log) :
        /\ p[1] < p[2]
        /\ log[p[1]] = Call
        /\ log[p[2]] = Call
        /\ \A k \in (p[1] + 1)..(p[2] - 1) : log[k] # Call}

\* C32: between two consecutive calls of the service, in one document or
\* from one document to the next, at least 2 seconds are waited.
C32_CallsTwoSecondsApart ==
    \A p \in ConsecutiveCalls(api_log) :
        Waited(api_log, p[1], p[2]) >= rate_limit_delay

\* the log of the invocation under way: what follows the wait between the
\* documents, the whole log for the first document
RECURSIVE ThisInvocation(_)
ThisInvocation(log) ==
    IF \E i \in DOMAIN log : log[i].e = "next document"
    THEN ThisInvocation(Tail(log))
    ELSE log

\* the backoff waits of the invocation, in order
Backoffs == SelectSeq(ThisInvocation(api_log), LAMBDA x : x.e = "backoff")

\* C33: in one invocation of _make_api_request the wait after the k-th
\* failed attempt is 3 * k seconds, longer than the one before; a wait
\* follows the first and the second failed attempt and none the third
\* (attempt counts the failed attempts).
C33_BackoffIncreasesNoneAfterLast ==
    /\ \A k \in DOMAIN Backoffs : Backoffs[k].s = 3 * k
    /\ \A k \in 2..Len(Backoffs) : Backoffs[k].s > Backoffs[k - 1].s
    /\ Len(Backoffs) = IF attempt < max_retries THEN attempt
                       ELSE max_retries - 1
    /\ attempt = max_retries
          => ThisInvocation(api_log)[Len(ThisInvocation(api_log))] = Call

\* three attempts have failed: waits of 3 and 6 seconds, none after the last
C33_Witness ==
    /\ api_pc = "returned"
    /\ api_return = "None"
    /\ Len(Backoffs) = 2
    /\ Backoffs[2].s = 6

\* an empty response, a blocked response, a response without parts or
\* without text
NoTextFailures == {"no response", "blocked", "no parts", "empty text"}

\* C34: an attempt that ends with an empty response, a blocked response or
\* a response without text is one failed attempt: while attempts remain the
\* loop goes on and the next call is made, and after the third failed
\* attempt parse_pdf runs the fallback.
C34_NoTextFailureRetriedThenFallback ==
    /\ []((api_last \in NoTextFailures /\ attempt < max_retries)
             => (api_pc = "loop" /\ attempt = api_calls))
    /\ \A k \in 1..(max_retries - 1) :
          (api_last \in NoTextFailures /\ attempt = k)
              ~> (api_calls = k + 1)
    /\ (api_last \in NoTextFailures /\ attempt = max_retries)
          ~> (api_pc = "fallback")

\* the third attempt was blocked and the fallback is run
C34_Witness ==
    /\ api_pc = "fallback"
    /\ api_last = "blocked"
    /\ api_calls = max_retries

\* C35: the text of the prompt has the length of the extracted text when
\* that is at most 45000 characters, and else 45000 characters and the 26
\* of the truncation marker; it stays the same from attempt to attempt.
C35_PromptTextTruncatedOnce ==
    /\ [](api_pc \in {"loop", "returned"} =>
             sent_len = (IF text_len <= 45000 THEN text_len ELSE 45000 + 26))
    /\ [][api_pc = "loop" => sent_len' = sent_len]_vars

\* a text of 45001 characters is sent truncated in the third attempt
C35_Witness ==
    /\ text_len = 45001
    /\ api_calls = max_retries
    /\ sent_len = 45026

----------------------------------------------------------------------------
(* Properties of process_all_pdfs (SpecPdf) *)

RunList == get_unprocessed_pdfs(run_start_processed)

\* C17: while a run goes on, every file of the list taken at its start has
\* been attempted or is still to come, whatever failed before it, and a run
\* returns only when every file of that list has been attempted.
C17_EveryUnprocessedPdfAttempted ==
    /\ [](proc = "running" =>
            {RunList[i] : i \in DOMAIN RunList}
               = attempted \cup {unprocessed_pdfs[i] : i \in DOMAIN unprocessed_pdfs})
    /\ [][(proc = "running" /\ proc' = "idle") =>
            attempted = {RunList[i] : i \in DOMAIN RunList}]_vars

\* a document without text, for which parse_pdf returns None, was attempted
\* and failed, and a later document of the list was attempted after it
C17_Witness ==
    /\ proc = "running"
    /\ \E i, j \in DOMAIN RunList :
          /\ i < j
          /\ pdf_text[RunList[i]].blank
          /\ RunList[i] \in attempted
          /\ RunList[j] \in attempted

\* C20: save_parsed_pdf_data removes and replaces no record: every record
\* that is in the record store before a step is in the store after it, also
\* when load_parsed_data failed to read the store during the call.
C20_SaveKeepsExistingRecords ==
    [][\A i \in 1..Len(StoredRecords) :
          \E j \in 1..Len(StoredRecords') :
              StoredRecords'[j] = StoredRecords[i]]_vars

----------------------------------------------------------------------------
(* Properties of is_already_processed (SpecScrape) *)

\* a stored row has an address that contains the listing's address or is
\* contained in it, whatever the letter case, and has the listing's city
ContainedAddressSameCity(snap, existing) ==
    /\ \E addr \in {Upper(Strip(existing.address)),
                    Upper(Strip(existing.full_address))} :
          /\ addr # << >>
          /\ Upper(Strip(snap.address)) # << >>
          /\ IsSubstring(Upper(Strip(snap.address)), addr)
                \/ IsSubstring(addr, Upper(Strip(snap.address)))
    /\ Upper(Strip(existing.city)) = Upper(Strip(snap.city))

\* C18: when is_already_processed has reported a listing processed by
\* another method than the checkpoint set, some stored row has an address
\* that contains the listing's address or is contained in it, whatever the
\* letter case, and has the same city as the listing.
C18_FuzzyMatchNeedsAddressAndCity ==
    last_check.method \in {"existing_data", "address_match"} =>
        \E i \in 1..Len(all_rows) :
            ContainedAddressSameCity(last_check.snap, all_rows[i])

\* two checkpoint keys agree on everything but pdf_downloaded
SameListingKey(cp, key) ==
    /\ cp.address = key.address
    /\ cp.city = key.city
    /\ cp.sale_date = key.sale_date
    /\ cp.file_date = key.file_date
    /\ cp.property_type = key.property_type

\* C23: when scrape_all checks a listing and the checkpoint set holds a key
\* with the listing's normalized address, city, sale date, file date and
\* property type, is_already_processed answers "checkpoint", whatever the
\* pdf_downloaded of the stored key.
C23_MarkedListingFoundByCheckpoint ==
    [][(/\ last_check' # NoCheck
        /\ \E cp \in processed_checkpoints :
              SameListingKey(cp, create_checkpoint_key(last_check'.snap)))
          => last_check'.method = "checkpoint"]_vars

\* some stored row matches the listing by one of the two address methods
MatchedByAddress(snap, existing_results) ==
    \E i \in 1..Len(existing_results) :
        \/ ExistingDataMatch(Upper(Strip(snap.address)),
                             Upper(Strip(snap.city)), existing_results[i])
        \/ AddressMatch(Upper(Strip(snap.address)),
                        Upper(Strip(snap.city)), existing_results[i])

\* C37: when scrape_all checks a listing whose exact checkpoint key is in
\* the checkpoint set, is_already_processed answers "checkpoint" whatever
\* the stored rows hold; it answers by one of the two address methods only
\* when the exact key is not in the set, and it answers "not processed" only
\* when the key is not in the set, so the address methods only add skips.
C37_ExactKeyAuthoritative ==
    [][last_check' # NoCheck =>
          LET in_set == create_checkpoint_key(last_check'.snap)
                            \in processed_checkpoints
          IN  /\ in_set => last_check'.method = "checkpoint"
              /\ last_check'.method \in {"existing_data", "address_match"}
                    => ~in_set
              /\ last_check'.method = "none" => ~in_set]_vars

\* a listing was reported by the checkpoint set while a stored row matched
\* it by address as well
C37_Witness ==
    /\ last_check # NoCheck
    /\ last_check.method = "checkpoint"
    /\ create_checkpoint_key(last_check.snap) \in processed_checkpoints
    /\ MatchedByAddress(last_check.snap, all_rows)

\* a listing whose key is not in the set was skipped by an address method
C37_WitnessAddress ==
    /\ last_check # NoCheck
    /\ last_check.method \in {"existing_data", "address_match"}
    /\ create_checkpoint_key(last_check.snap) \notin processed_checkpoints

----------------------------------------------------------------------------
(* Properties of the uploader (SpecUpload) *)

\* upload_record has returned from a call in which the write raised
WriteFailed == batch_i' = batch_i + 1 /\ last_upload'.write = "error"

\* the failed call returns False, does not add the detail_id, and does not
\* end the batch: upload_batch returns only after its last record, or on an
\* exception of save_checkpoints
FailureReportedBatchGoesOn ==
    /\ [][WriteFailed =>
            /\ ~last_upload'.result
            /\ last_upload'.detail_id \notin processed_records'
            /\ up' = "uploading" \/ last_save' \in {"error", "killed"}]_vars
    /\ [][(up = "uploading" /\ up' = "idle") =>
            batch_i' = Len(new_records) \/ last_save' = "error"]_vars

InterruptStep ==
    /\ up \in {"idle", "uploading"}
    /\ up' = "down"
    /\ last_save' = "none"

\* C24: when the uploader is stopped by the user, every detail_id written
\* to the sheet is in the processed_records of the checkpoint file.
C24_InterruptPersistsWritten ==
    [][InterruptStep =>
          written_ids \subseteq FileKeys(upload_checkpoint_file')]_vars

\* C38: upload_batch takes a start row beyond every row of the sheet that
\* upload_record has written, and upload_record never writes a record into
\* a row that holds a record written by an earlier run.
C38_NoWrittenRowOverwritten ==
    [][/\ (upload_runs' = upload_runs + 1 /\ up' = "uploading")
           => \A c \in sheet : c.row < start_row'
       /\ (batch_i' = batch_i + 1 /\ last_upload'.write = "ok")
           => \A c \in sheet : c.row # start_row + batch_i]_vars

====
